---- MODULE Spec2Model ----
(***************************************************************************)
(* A model of lerobot's MotorsBus (lerobot/common/motors/motors_bus.py):   *)
(* the connection state machine, the retry loops of ping / sync_read /     *)
(* sync_write / write, the cross-model address guard and the calibration   *)
(* transform.  The serial transport (PortHandler, PacketHandler,           *)
(* GroupSyncRead, GroupSyncWrite) is the environment: every answer it can  *)
(* give is a nondeterministic input of the action that asks for it.        *)
(*                                                                         *)
(* A Python exception is modelled as the field err of the value an         *)
(* operator returns ("none" when nothing was raised); the public call that *)
(* lets it escape records it in result.err.                                *)
(***************************************************************************)
EXTENDS Integers, Sequences, FiniteSets, TLC

VARIABLES
    motors,          \* self.motors, in insertion order: a sequence of Motor records
    calibration,     \* self.calibration: name -> MotorCalibration
    is_open,         \* self.port_handler.is_open
    packet_timeout,  \* the port handler's packet timeout in ms (0: never set)
    sync_reader,     \* self.sync_reader: start_address, data_length, param
    sync_writer,     \* self.sync_writer: start_address, data_length, param
    pc,              \* "idle", the retry loop a call is in, or "done": a call has ended
    call,            \* the frame of the call in progress (or of the last call)
    wire,            \* the transactions the current (or last) call put on the bus
    result,          \* how the last completed call ended
    entry            \* the bus as it was when the current (or last) call was entered

vars == <<motors, calibration, is_open, packet_timeout, sync_reader, sync_writer,
          pc, call, wire, result, entry>>

\* The largest num_retry a caller passes.
MaxRetry == 2

\* A local variable: v is computed once and F reads it.
With(v, F(_)) == CHOOSE r \in { F(e) : e \in {v} } : TRUE

(***************************************************************************)
(* Data model                                                              *)
(***************************************************************************)
Motor(n, i, m, nm) == [name |-> n, id |-> i, model |-> m, norm_mode |-> nm]

MotorCalibration(i, dm, ho, lo, hi) ==
    [id |-> i, drive_mode |-> dm, homing_offset |-> ho, range_min |-> lo, range_max |-> hi]

\* NameOrID: a motor is named by its name (a str) or by its id (an int).
NameKey(n) == [kind |-> "name", name |-> n, id |-> 0]
IdKey(i) == [kind |-> "id", name |-> "", id |-> i]

\* A Value: an int, or a float written as the fraction num/den.
Val(n, d) == [num |-> n, den |-> d]

(***************************************************************************)
(* Class data of the vendor subclass (declared, not set, by MotorsBus)     *)
(***************************************************************************)
_comm_success == 0
_no_error == 0
default_timeout == 1000

\* Three models.  sts3215 and sts3250 agree on Goal_Position and on the calibration
\* registers and differ in the width of Torque_Enable; xl330 puts everything
\* elsewhere; Lock exists for sts3215 only and Drive_Mode for xl330 only.
model_ctrl_table ==
    ("sts3215" :> ( ("Goal_Position" :> <<42, 2>>) @@ ("Torque_Enable" :> <<40, 1>>)
                 @@ ("Lock" :> <<55, 1>>) @@ ("Homing_Offset" :> <<31, 2>>)
                 @@ ("Min_Position_Limit" :> <<9, 2>>) @@ ("Max_Position_Limit" :> <<11, 2>>)
                 @@ ("Present_Position" :> <<56, 2>>) ))
 @@ ("sts3250" :> ( ("Goal_Position" :> <<42, 2>>) @@ ("Torque_Enable" :> <<40, 2>>)
                 @@ ("Homing_Offset" :> <<31, 2>>)
                 @@ ("Min_Position_Limit" :> <<9, 2>>) @@ ("Max_Position_Limit" :> <<11, 2>>)
                 @@ ("Present_Position" :> <<56, 2>>) ))
 @@ ("xl330"   :> ( ("Goal_Position" :> <<116, 4>>) @@ ("Torque_Enable" :> <<64, 1>>)
                 @@ ("Drive_Mode" :> <<10, 1>>) @@ ("Homing_Offset" :> <<20, 4>>)
                 @@ ("Min_Position_Limit" :> <<52, 4>>) @@ ("Max_Position_Limit" :> <<48, 4>>)
                 @@ ("Present_Position" :> <<132, 4>>) ))

\* scs0009 has a model number and no control table.
model_number_table ==
    ("sts3215" :> 777) @@ ("sts3250" :> 2825) @@ ("xl330" :> 1200) @@ ("scs0009" :> 1284)

model_resolution_table == ("sts3215" :> 4096) @@ ("sts3250" :> 4096) @@ ("xl330" :> 4096)

available_baudrates == <<1000000, 500000, 115200>>

normalization_required == {"Goal_Position"}

(***************************************************************************)
(* Control table registry                                                  *)
(***************************************************************************)
get_ctrl_table(model) ==
    IF model \notin DOMAIN model_ctrl_table
    THEN [err |-> "KeyError", msg |-> "control table not found", table |-> <<>>]
    ELSE [err |-> "none", msg |-> "", table |-> model_ctrl_table[model]]

\* A variant of get_address that answers address 0, width 1 for what it does not find.
get_address_default(model, data_name) ==
    IF model \in DOMAIN model_ctrl_table /\ data_name \in DOMAIN model_ctrl_table[model]
    THEN [err |-> "none", msg |-> "", addr |-> model_ctrl_table[model][data_name][1],
          n_bytes |-> model_ctrl_table[model][data_name][2]]
    ELSE [err |-> "none", msg |-> "", addr |-> 0, n_bytes |-> 1]

get_address(model, data_name) ==
    LET t == get_ctrl_table(model) IN
    IF t.err # "none" THEN [err |-> t.err, msg |-> t.msg, addr |-> 0, n_bytes |-> 0]
    ELSE IF data_name \notin DOMAIN t.table
    THEN [err |-> "KeyError", msg |-> "address not found", addr |-> 0, n_bytes |-> 0]
    ELSE [err |-> "none", msg |-> "", addr |-> t.table[data_name][1],
          n_bytes |-> t.table[data_name][2]]

\* The loop of assert_same_address: the first model without data_name raises.
RECURSIVE FirstAddressError(_, _)
FirstAddressError(motor_models, data_name) ==
    IF motor_models = <<>> THEN [err |-> "none", msg |-> ""]
    ELSE LET a == get_address(Head(motor_models), data_name) IN
         IF a.err # "none" THEN [err |-> a.err, msg |-> a.msg]
         ELSE FirstAddressError(Tail(motor_models), data_name)

\* len(set(all_addr)) and len(set(all_bytes)) of assert_same_address.
DistinctAddr(motor_models, data_name) ==
    Cardinality({ get_address(motor_models[i], data_name).addr : i \in DOMAIN motor_models })
DistinctBytes(motor_models, data_name) ==
    Cardinality({ get_address(motor_models[i], data_name).n_bytes : i \in DOMAIN motor_models })

assert_same_address(motor_models, data_name) ==
    With(FirstAddressError(motor_models, data_name), LAMBDA e :
    IF e.err # "none" THEN e
    ELSE IF DistinctAddr(motor_models, data_name) # 1
    THEN [err |-> "NotImplementedError", msg |-> "different address"]
    ELSE IF DistinctBytes(motor_models, data_name) # 1
    THEN [err |-> "NotImplementedError", msg |-> "different bytes"]
    ELSE [err |-> "none", msg |-> ""])

(***************************************************************************)
(* Lookup tables derived from self.motors                                  *)
(***************************************************************************)
names == [i \in DOMAIN motors |-> motors[i].name]
models == [i \in DOMAIN motors |-> motors[i].model]
ids == [i \in DOMAIN motors |-> motors[i].id]

\* A dict built by inserting motors in order: the last motor with a key wins.
LastWith(P(_)) == CHOOSE i \in DOMAIN motors : P(motors[i]) /\ \A j \in DOMAIN motors : P(motors[j]) => j <= i

HasName(n) == \E i \in DOMAIN motors : motors[i].name = n
HasId(i) == \E j \in DOMAIN motors : motors[j].id = i
MotorNamed(n) == LET Is(m) == m.name = n IN motors[LastWith(Is)]
MotorWithId(i) == LET Is(m) == m.id = i IN motors[LastWith(Is)]

_id_to_model(motor_id) ==
    IF HasId(motor_id) THEN [err |-> "none", msg |-> "", model |-> MotorWithId(motor_id).model]
    ELSE [err |-> "KeyError", msg |-> "id", model |-> ""]

_id_to_name(motor_id) ==
    IF HasId(motor_id) THEN [err |-> "none", msg |-> "", name |-> MotorWithId(motor_id).name]
    ELSE [err |-> "KeyError", msg |-> "id", name |-> ""]

_get_motor_model(motor) ==
    IF motor.kind = "name"
    THEN IF HasName(motor.name)
         THEN [err |-> "none", msg |-> "", model |-> MotorNamed(motor.name).model]
         ELSE [err |-> "KeyError", msg |-> "name", model |-> ""]
    ELSE IF motor.kind = "id" THEN _id_to_model(motor.id)
    ELSE [err |-> "TypeError", msg |-> "should be int, str", model |-> ""]

_get_motor_id(motor) ==
    IF motor.kind = "name"
    THEN IF HasName(motor.name) THEN [err |-> "none", msg |-> "", id |-> MotorNamed(motor.name).id]
         ELSE [err |-> "KeyError", msg |-> "name", id |-> 0]
    ELSE IF motor.kind = "id" THEN [err |-> "none", msg |-> "", id |-> motor.id]
    ELSE [err |-> "TypeError", msg |-> "should be int, str", id |-> 0]

\* DeepDiff(first_table, table) is non-empty.
TablesDiffer(t1, t2) == t1 # t2

\* any(DeepDiff(first_table, get_ctrl_table(model)) for model in rest), which stops
\* at the first table that differs.
RECURSIVE AnyTableDiffers(_, _)
AnyTableDiffers(first_table, rest) ==
    IF rest = <<>> THEN [err |-> "none", msg |-> "", val |-> FALSE]
    ELSE LET t == get_ctrl_table(Head(rest)) IN
         IF t.err # "none" THEN [err |-> t.err, msg |-> t.msg, val |-> FALSE]
         ELSE IF TablesDiffer(first_table, t.table) THEN [err |-> "none", msg |-> "", val |-> TRUE]
         ELSE AnyTableDiffers(first_table, Tail(rest))

_has_different_ctrl_tables ==
    IF Len(motors) < 2 THEN [err |-> "none", msg |-> "", val |-> FALSE]
    ELSE IF models[1] \notin DOMAIN model_ctrl_table
    THEN [err |-> "KeyError", msg |-> "model", val |-> FALSE]
    ELSE AnyTableDiffers(model_ctrl_table[models[1]], Tail(models))

_is_comm_success(comm) == comm = _comm_success
_is_error(error) == error # _no_error

(***************************************************************************)
(* Calibration transform                                                   *)
(***************************************************************************)
\* int(): the quotient a / b (b > 0) truncated towards zero.
TruncDiv(a, b) == IF a >= 0 THEN a \div b ELSE -((-a) \div b)

Abs(x) == IF x < 0 THEN -x ELSE x

RECURSIVE Gcd(_, _)
Gcd(a, b) == IF b = 0 THEN a ELSE Gcd(b, a % b)

\* The float n / d (d # 0), as a fraction in lowest terms with a positive denominator.
Frac(n, d) ==
    LET g == Gcd(Abs(n), Abs(d))
        sgn == IF d < 0 THEN -1 ELSE 1
    IN Val(sgn * (n \div g), sgn * (d \div g))

\* A variant of the bounding that lets every value through.
Clamp_none(val, lo, hi) == val

\* min(hi, max(lo, val)) for a Value val and integers lo <= hi.
Clamp(val, lo, hi) ==
    IF val.num < lo * val.den THEN Val(lo, 1)
    ELSE IF val.num > hi * val.den THEN Val(hi, 1)
    ELSE val

\* A variant of the loop of _normalize that maps val without bounding it first.
NormalizeOne_unclamped(id_, val) ==
    With(_id_to_name(id_), LAMBDA n :
    LET min_ == calibration[n.name].range_min
        max_ == calibration[n.name].range_max
    IN IF MotorNamed(n.name).norm_mode = "RANGE_M100_100"
       THEN [err |-> "none", msg |-> "",
             val |-> Frac(200 * (val - min_) - 100 * (max_ - min_), max_ - min_)]
       ELSE [err |-> "none", msg |-> "", val |-> Frac(100 * (val - min_), max_ - min_)])

\* One iteration of the loop of _normalize, for the raw integer val read from id_.
NormalizeOne(id_, val) ==
    With(_id_to_name(id_), LAMBDA n :
    IF n.err # "none" THEN [err |-> n.err, msg |-> n.msg, val |-> Val(0, 1)]
    ELSE IF n.name \notin DOMAIN calibration
    THEN [err |-> "KeyError", msg |-> "calibration", val |-> Val(0, 1)]
    ELSE LET min_ == calibration[n.name].range_min
             max_ == calibration[n.name].range_max
             bounded_val == IF max_ < (IF min_ > val THEN min_ ELSE val) THEN max_
                            ELSE (IF min_ > val THEN min_ ELSE val)
             mode == MotorNamed(n.name).norm_mode
         IN IF mode \notin {"RANGE_M100_100", "RANGE_0_100"}
            THEN [err |-> "NotImplementedError", msg |-> "norm_mode", val |-> Val(0, 1)]
            ELSE IF max_ = min_
            THEN [err |-> "ZeroDivisionError", msg |-> "division by zero", val |-> Val(0, 1)]
            ELSE IF mode = "RANGE_M100_100"
            THEN [err |-> "none", msg |-> "",
                  val |-> Frac(200 * (bounded_val - min_) - 100 * (max_ - min_), max_ - min_)]
            ELSE [err |-> "none", msg |-> "",
                  val |-> Frac(100 * (bounded_val - min_), max_ - min_)])

\* Whether d is a power of two: a fraction with such a denominator (and a small
\* numerator) is a float exactly, any other fraction only to the nearest float.
RECURSIVE IsPow2(_)
IsPow2(d) == d = 1 \/ (d > 1 /\ d % 2 = 0 /\ IsPow2(d \div 2))

\* How the float result of an inexact computation lies to the real one.
Roundings == {"below", "exact", "above"}

\* A variant of int() that rounds towards minus infinity.
IntOfFloat_floor(r, inexact, rounding) ==
    IF r.den # 1 \/ ~inexact THEN r.num \div r.den
    ELSE IF rounding = "below" THEN r.num - 1
    ELSE r.num

\* int() of the float computed for the real r.  Where the arithmetic was exact,
\* or r is not an integer, this is r truncated towards zero; where it was
\* inexact and r is an integer, the float is r or a neighbour of r on the side
\* given by rounding, and truncation gives r or the integer next to it
\* towards zero.
IntOfFloat(r, inexact, rounding) ==
    IF r.den # 1 \/ ~inexact THEN TruncDiv(r.num, r.den)
    ELSE IF rounding = "below" /\ r.num > 0 THEN r.num - 1
    ELSE IF rounding = "above" /\ r.num < 0 THEN r.num + 1
    ELSE r.num

\* A variant of the loop of _unnormalize that skips the rescaling and truncates val.
UnnormalizeOne_unscaled(id_, val, rounding) ==
    [err |-> "none", msg |-> "", val |-> Val(TruncDiv(val.num, val.den), 1)]

\* A variant of the loop of _unnormalize that answers range_min whatever the mode.
UnnormalizeOne_any_mode(id_, val, rounding) ==
    With(_id_to_name(id_), LAMBDA n :
    IF n.err # "none" THEN [err |-> n.err, msg |-> n.msg, val |-> Val(0, 1)]
    ELSE IF n.name \notin DOMAIN calibration
    THEN [err |-> "KeyError", msg |-> "calibration", val |-> Val(0, 1)]
    ELSE [err |-> "none", msg |-> "", val |-> Val(calibration[n.name].range_min, 1)])

\* One iteration of the loop of _unnormalize, for the Value val given for id_.
\* t is the quotient of the formula; the product and the sum after it are exact
\* when t is, and when the range has one tick (the product is 0).
UnnormalizeOne(id_, val, rounding) ==
    With(_id_to_name(id_), LAMBDA n :
    IF n.err # "none" THEN [err |-> n.err, msg |-> n.msg, val |-> Val(0, 1)]
    ELSE IF n.name \notin DOMAIN calibration
    THEN [err |-> "KeyError", msg |-> "calibration", val |-> Val(0, 1)]
    ELSE LET min_ == calibration[n.name].range_min
             max_ == calibration[n.name].range_max
             mode == MotorNamed(n.name).norm_mode
             scaled(b, t) ==
                 [err |-> "none", msg |-> "",
                  val |-> Val(IntOfFloat(Frac(t.num * (max_ - min_) + min_ * t.den, t.den),
                                         max_ # min_ /\ (~IsPow2(b.den) \/ ~IsPow2(t.den)),
                                         rounding), 1)]
         IN IF mode = "RANGE_M100_100"
            THEN With(Clamp(val, -100, 100), LAMBDA b :
                 scaled(b, Frac(b.num + 100 * b.den, 200 * b.den)))
            ELSE IF mode = "RANGE_0_100"
            THEN With(Clamp(val, 0, 100), LAMBDA b :
                 scaled(b, Frac(b.num, 100 * b.den)))
            ELSE [err |-> "NotImplementedError", msg |-> "norm_mode", val |-> Val(0, 1)])

\* _normalize / _unnormalize over a dict id -> value, a sequence of [id, val] in
\* insertion order: the first motor that raises ends the loop.
RECURSIVE _normalize(_)
_normalize(ids_values) ==
    IF ids_values = <<>> THEN [err |-> "none", msg |-> "", vals |-> <<>>]
    ELSE With(NormalizeOne(Head(ids_values).id, Head(ids_values).val.num), LAMBDA one :
         IF one.err # "none" THEN [err |-> one.err, msg |-> one.msg, vals |-> <<>>]
         ELSE With(_normalize(Tail(ids_values)), LAMBDA rest :
              IF rest.err # "none" THEN rest
              ELSE [err |-> "none", msg |-> "",
                    vals |-> <<[id |-> Head(ids_values).id, val |-> one.val]>> \o rest.vals]))

RECURSIVE _unnormalize(_, _)
_unnormalize(ids_values, rounding) ==
    IF ids_values = <<>> THEN [err |-> "none", msg |-> "", vals |-> <<>>]
    ELSE With(UnnormalizeOne(Head(ids_values).id, Head(ids_values).val, rounding), LAMBDA one :
         IF one.err # "none" THEN [err |-> one.err, msg |-> one.msg, vals |-> <<>>]
         ELSE With(_unnormalize(Tail(ids_values), rounding), LAMBDA rest :
              IF rest.err # "none" THEN rest
              ELSE [err |-> "none", msg |-> "",
                    vals |-> <<[id |-> Head(ids_values).id, val |-> one.val]>> \o rest.vals]))

(***************************************************************************)
(* Value codec (the vendor subclass's hooks)                               *)
(***************************************************************************)
\* 2^(8 * n_bytes) for the widths 1 and 2.
Pow256(n_bytes) == IF n_bytes = 1 THEN 256 ELSE 65536

\* Sign-magnitude with the sign in the top bit, for the fields of 1 and 2 bytes;
\* fields of 4 bytes are not re-encoded.
_encode_value(value, n_bytes) ==
    IF n_bytes \in {1, 2} /\ value < 0 THEN Pow256(n_bytes) \div 2 + (-value) ELSE value
_decode_value(value, n_bytes) ==
    IF n_bytes \in {1, 2} /\ 2 * value >= Pow256(n_bytes)
    THEN -(value - Pow256(n_bytes) \div 2) ELSE value

RECURSIVE LittleEndian(_, _)
LittleEndian(value, n_bytes) ==
    IF n_bytes = 0 THEN <<>> ELSE <<value % 256>> \o LittleEndian(value \div 256, n_bytes - 1)

\* Every value of the model is below 2^31, so it fits 4 bytes when it is not negative.
_split_int_to_bytes(value, n_bytes) ==
    IF n_bytes \notin {1, 2, 4}
    THEN [err |-> "NotImplementedError", msg |-> "n_bytes", data |-> <<>>]
    ELSE IF value < 0 \/ (n_bytes < 4 /\ value >= Pow256(n_bytes))
    THEN [err |-> "ValueError", msg |-> "value out of range", data |-> <<>>]
    ELSE [err |-> "none", msg |-> "", data |-> LittleEndian(value, n_bytes)]

(***************************************************************************)
(* Frames, transactions and results                                        *)
(***************************************************************************)
NoMotors == [tag |-> "none", keys |-> <<>>]
NoValues == [tag |-> "none", v |-> Val(0, 1), items |-> <<>>]

NoCall ==
    [op |-> "none", data_name |-> "", marg |-> NoMotors, varg |-> NoValues,
     normalize |-> FALSE, num_retry |-> 0, raise_on_error |-> FALSE,
     assert_motors_exist |-> FALSE, port |-> "", ids |-> <<>>, keys |-> <<>>,
     payload |-> <<>>, addr |-> 0, n_bytes |-> 0, n_try |-> 0,
     display_values |-> FALSE, cal |-> <<>>, step |-> 0, acc |-> <<>>,
     mins |-> <<>>, maxes |-> <<>>, seen |-> {}, stop |-> FALSE, baudrate |-> 0,
     motor_models |-> <<>>, port_open |-> FALSE]

\* One transaction on the bus, with the transport's answer.
Txn(kind, id_list, addr, n_bytes, data, comm, error) ==
    [kind |-> kind, ids |-> id_list, addr |-> addr, n_bytes |-> n_bytes, data |-> data,
     comm |-> comm, error |-> error, baudrate |-> 0]

\* How a call ended: the exception raised ("none": it returned), the number of
\* tries its message reports, the mapping or the model number it returned, and how
\* many values it fetched from the group reader.
Result(op, err, msg) ==
    [op |-> op, err |-> err, msg |-> msg, tries |-> 0, ret |-> <<>>, model_number |-> -1,
     fetched |-> 0, is_calibrated |-> FALSE]

Snapshot ==
    [connected |-> is_open, sync_reader |-> sync_reader, sync_writer |-> sync_writer,
     packet_timeout |-> packet_timeout, calibration |-> calibration]

(***************************************************************************)
(* Construction                                                            *)
(***************************************************************************)
GripperMotors == << Motor("gripper", 6, "sts3215", "RANGE_0_100") >>
GripperCalibration == ("gripper" :> MotorCalibration(6, 0, 0, 0, 4095))

MixedMotors ==
    << Motor("a", 1, "sts3215", "RANGE_M100_100"),
       Motor("b", 2, "sts3250", "RANGE_0_100"),
       Motor("c", 3, "xl330", "DEGREE") >>
MixedCalibration ==
    ("a" :> MotorCalibration(1, 0, 0, 0, 4095)) @@ ("b" :> MotorCalibration(2, 0, 0, 1000, 3000))
 @@ ("c" :> MotorCalibration(3, 0, 0, 0, 4095))

\* Two entries with the same id.
DuplicateMotors ==
    << Motor("a", 1, "sts3215", "RANGE_M100_100"), Motor("b", 1, "sts3250", "RANGE_0_100") >>

NoCalibration == [n \in {} |-> 0]

\* One motor of a model without a control table.
UnregisteredMotors == << Motor("claw", 4, "scs0009", "RANGE_0_100") >>
UnregisteredCalibration == ("claw" :> MotorCalibration(4, 0, 0, 0, 1023))

\* The arguments of the constructor the model starts from: motors, calibration.
Buses ==
    { [motors |-> GripperMotors, calibration |-> NoCalibration],
      [motors |-> GripperMotors, calibration |-> GripperCalibration],
      [motors |-> MixedMotors, calibration |-> MixedCalibration] }

AnyBuses ==
    Buses \cup { [motors |-> DuplicateMotors, calibration |-> NoCalibration],
                 [motors |-> UnregisteredMotors, calibration |-> UnregisteredCalibration] }

\* if len(self.ids) != len(set(self.ids)): raise ValueError
_validate_motors(motors_arg) ==
    IF Len(motors_arg) # Cardinality({ motors_arg[i].id : i \in DOMAIN motors_arg })
    THEN [err |-> "ValueError", msg |-> "Some motors have the same id"]
    ELSE IF \E i \in DOMAIN motors_arg : get_ctrl_table(motors_arg[i].model).err # "none"
    THEN [err |-> "KeyError", msg |-> "control table not found"]
    ELSE [err |-> "none", msg |-> ""]

\* MotorsBus.__init__: it stores its arguments and builds the lookup tables; it
\* does not call _validate_motors.
Construct(bus) ==
    /\ motors = bus.motors
    /\ calibration = bus.calibration
    /\ is_open = FALSE
    /\ packet_timeout = 0
    /\ sync_reader = [start_address |-> 0, data_length |-> 0, param |-> <<>>]
    /\ sync_writer = [start_address |-> 0, data_length |-> 0, param |-> <<>>]
    /\ pc = "idle"
    /\ call = NoCall
    /\ wire = <<>>
    /\ result = Result("none", "none", "")
    /\ entry = [connected |-> FALSE,
                sync_reader |-> [start_address |-> 0, data_length |-> 0, param |-> <<>>],
                sync_writer |-> [start_address |-> 0, data_length |-> 0, param |-> <<>>],
                packet_timeout |-> 0, calibration |-> bus.calibration]

Init == \E bus \in Buses : Construct(bus)

InitAny == \E bus \in AnyBuses : Construct(bus)

(***************************************************************************)
(* What callers pass and what the transport answers                        *)
(***************************************************************************)
\* The data names callers use: normalization-required, plain, of one model only, unknown.
DataNames == {"Goal_Position", "Torque_Enable", "Lock", "Bogus"}

One(k) == [tag |-> "one", keys |-> <<k>>]
List(ks) == [tag |-> "list", keys |-> ks]
FirstName == NameKey(motors[1].name)
FirstId == IdKey(motors[1].id)
OtherNames == { NameKey(motors[j].name) : j \in 2..Len(motors) }
LastName == NameKey(motors[Len(motors)].name)

\* A motor argument: a configured name, an id, an unknown name, neither str nor int.
MotorArgs ==
    { NameKey(motors[i].name) : i \in DOMAIN motors }
    \cup { FirstId, NameKey("ghost"), [kind |-> "other", name |-> "", id |-> 0] }

\* The motors argument: None, a name, an id, a list, something else.
MotorsArgs ==
    { NoMotors, [tag |-> "bad", keys |-> <<>>], List(<<>>), One(NameKey("ghost")),
      One(FirstName), One(FirstId), List(<<FirstName, FirstId>>) }
    \cup { List(<<FirstName, k>>) : k \in OtherNames }

Scalar(v) == [tag |-> "int", v |-> Val(v, 1), items |-> <<>>]
Dict(items) == [tag |-> "dict", v |-> Val(0, 1), items |-> items]
Item(k, v) == [key |-> k, val |-> Val(v, 1)]

\* The values argument: an int, a float, a dict, something else.
ValuesArgs ==
    { Scalar(50), [tag |-> "float", v |-> Val(1, 2), items |-> <<>>],
      [tag |-> "bad", v |-> Val(0, 1), items |-> <<>>], Dict(<<>>),
      Dict(<<Item(FirstName, 50)>>), Dict(<<Item(FirstId, 50)>>),
      Dict(<<Item(NameKey("ghost"), 1)>>) }
    \cup { Dict(<<Item(FirstName, 50), Item(k, 75)>>) : k \in OtherNames }

\* The calls a caller makes: every argument without retries, and retries on calls
\* that reach the bus.
SyncReadCalls ==
    [data_name : DataNames, motors : MotorsArgs, normalize : BOOLEAN, num_retry : {0}]
    \cup [data_name : {"Goal_Position"},
          motors : {One(FirstName)} \cup { List(<<FirstName, k>>) : k \in OtherNames },
          normalize : BOOLEAN, num_retry : 1..MaxRetry]
    \cup [data_name : {"Goal_Position"}, motors : {One(LastName)},
          normalize : {TRUE}, num_retry : {0}]

SyncWriteCalls ==
    [data_name : DataNames, values : ValuesArgs, normalize : BOOLEAN, num_retry : {0}]
    \cup [data_name : {"Goal_Position"},
          values : {Dict(<<Item(FirstName, 50)>>), Scalar(50)},
          normalize : BOOLEAN, num_retry : 1..MaxRetry]

WriteCalls ==
    [data_name : DataNames, motor : MotorArgs, value : {Val(50, 1), Val(300, 1)},
     normalize : BOOLEAN, num_retry : {0}]
    \cup [data_name : {"Goal_Position"}, motor : {FirstName}, value : {Val(50, 1)},
          normalize : BOOLEAN, num_retry : 1..MaxRetry]

PingCalls == [motor : MotorArgs, num_retry : 0..MaxRetry, raise_on_error : BOOLEAN]

\* Communication statuses: success, a failure.
CommStatuses == {_comm_success, -1}
\* Device error codes: none, one.
ErrorCodes == {_no_error, 1}
\* Model numbers a ping reports: the one of the first motor's model, another.
ModelNumbers == {model_number_table[motors[1].model], 1}
\* What packet_handler.ping answers: a model number comes with a communication
\* success only.
PingAnswers ==
    [model_number : ModelNumbers, comm : {_comm_success}, error : ErrorCodes]
    \cup [model_number : {0}, comm : CommStatuses \ {_comm_success}, error : ErrorCodes]
\* Raw values a group read returns (plus the id of the motor).
ReadBases == {100, 5000}

(***************************************************************************)
(* connect / disconnect / set_timeout                                      *)
(***************************************************************************)
\* A variant of is_connected that never sees the port open.
is_connected_never == FALSE

is_connected == is_open

expected_models == [i \in { motors[j].id : j \in DOMAIN motors } |->
                       model_number_table[MotorWithId(i).model]]

\* What broadcast_ping can answer: the expected motors, one missing, one more, one
\* of another model, none.
FoundSets ==
    LET e == expected_models
        first == motors[1].id
    IN { e,
         [i \in DOMAIN e \ {first} |-> e[i]],
         e @@ (9 :> 777),
         [e EXCEPT ![first] = 1],
         [i \in {} |-> 0] }

\* _assert_motors_exist on what the broadcast ping found.
_assert_motors_exist(found_models) ==
    IF DOMAIN found_models = {} \/ DOMAIN found_models # { ids[i] : i \in DOMAIN ids }
    THEN [err |-> "RuntimeError", msg |-> "is supposed to have these motors"]
    ELSE IF \E i \in DOMAIN expected_models : found_models[i] # expected_models[i]
    THEN [err |-> "RuntimeError", msg |-> "is supposed to be of model_number"]
    ELSE [err |-> "none", msg |-> ""]

\* A variant of the except clause that lets OSError through.
ConnectCatches_no_OSError(err) == err \in {"FileNotFoundError", "SerialException"}

\* except (FileNotFoundError, OSError, serial.SerialException): a RuntimeError is
\* none of them.
ConnectCatches(err) == err \in {"FileNotFoundError", "OSError", "SerialException"}

\* The body of connect() on a bus that is not connected.  opens: what openPort()
\* does ("true", "false", "raises"); ping: whether the broadcast ping answers or
\* raises a serial error; found_models: its answer.
ConnectBody(assert_motors_exist, opens, ping, found_models) ==
    LET pinged == opens = "true" /\ assert_motors_exist
        raised ==
            IF opens = "raises" THEN [err |-> "SerialException", msg |-> "could not open port"]
            ELSE IF opens = "false" THEN [err |-> "OSError", msg |-> "Failed to open port"]
            ELSE IF ~assert_motors_exist THEN [err |-> "none", msg |-> ""]
            ELSE IF ping = "raises" THEN [err |-> "SerialException", msg |-> "write failed"]
            ELSE _assert_motors_exist(found_models)
        final ==
            IF ConnectCatches(raised.err)
            THEN [err |-> "ConnectionError", msg |-> "Could not connect on port"]
            ELSE raised
    IN [err |-> final.err, msg |-> final.msg,
        is_open |-> (opens = "true"),
        wire |-> IF pinged
                 THEN << IF ping = "raises"
                         THEN Txn("broadcast_ping", <<>>, 0, 0, <<>>, -1, _no_error)
                         ELSE Txn("broadcast_ping", <<>>, 0, 0, found_models, _comm_success,
                                  _no_error) >>
                 ELSE <<>>,
        packet_timeout |-> IF final.err = "none" THEN default_timeout ELSE packet_timeout]

connect(assert_motors_exist, opens, ping, found_models) ==
    /\ pc = "idle"
    /\ entry' = Snapshot
    /\ call' = [NoCall EXCEPT !.op = "connect", !.assert_motors_exist = assert_motors_exist,
                              !.port = opens]
    /\ \E o \in { IF is_connected
                   THEN [err |-> "DeviceAlreadyConnectedError", msg |-> "is already connected",
                         is_open |-> is_open, wire |-> <<>>, packet_timeout |-> packet_timeout]
                   ELSE ConnectBody(assert_motors_exist, opens, ping, found_models) } :
          /\ is_open' = o.is_open
          /\ wire' = o.wire
          /\ packet_timeout' = o.packet_timeout
          /\ result' = Result("connect", o.err, o.msg)
    /\ pc' = "done"
    /\ UNCHANGED <<motors, calibration, sync_reader, sync_writer>>

disconnect ==
    /\ pc = "idle"
    /\ entry' = Snapshot
    /\ call' = [NoCall EXCEPT !.op = "disconnect"]
    /\ wire' = <<>>
    /\ IF ~is_connected
       THEN /\ result' = Result("disconnect", "DeviceNotConnectedError", "is not connected")
            /\ UNCHANGED is_open
       ELSE /\ is_open' = FALSE
            /\ result' = Result("disconnect", "none", "")
    /\ pc' = "done"
    /\ UNCHANGED <<motors, calibration, packet_timeout, sync_reader, sync_writer>>

\* The timeouts a caller sets.
Timeouts == {20}

set_timeout(timeout_ms) ==
    /\ pc = "idle"
    /\ entry' = Snapshot
    /\ call' = [NoCall EXCEPT !.op = "set_timeout"]
    /\ wire' = <<>>
    /\ packet_timeout' = timeout_ms
    /\ result' = Result("set_timeout", "none", "")
    /\ pc' = "done"
    /\ UNCHANGED <<motors, calibration, is_open, sync_reader, sync_writer>>

\* Control is back with the caller, who may call again.
Return ==
    /\ pc = "done"
    /\ pc' = "idle"
    /\ call' = NoCall
    /\ wire' = <<>>
    /\ result' = Result("none", "none", "")
    /\ entry' = Snapshot
    /\ UNCHANGED <<motors, calibration, is_open, packet_timeout, sync_reader, sync_writer>>

(***************************************************************************)
(* Group addressing                                                        *)
(***************************************************************************)
\* d[k] = v on a dict kept as a sequence of [id, val] in insertion order.
DictPut(d, k, v) ==
    IF \E i \in DOMAIN d : d[i].id = k
    THEN [i \in DOMAIN d |-> IF d[i].id = k THEN [id |-> k, val |-> v] ELSE d[i]]
    ELSE Append(d, [id |-> k, val |-> v])

DictKeys(d) == [i \in DOMAIN d |-> d[i].id]

\* {self._get_motor_id(m): m for m in keys}
RECURSIVE KeysToIds(_, _)
KeysToIds(keys, acc) ==
    IF keys = <<>> THEN [err |-> "none", msg |-> "", map |-> acc]
    ELSE With(_get_motor_id(Head(keys)), LAMBDA r :
         IF r.err # "none" THEN [err |-> r.err, msg |-> r.msg, map |-> <<>>]
         ELSE KeysToIds(Tail(keys), DictPut(acc, r.id, Head(keys))))

\* The id_key_map of sync_read for its motors argument.
id_key_map(marg) ==
    IF marg.tag = "none" THEN KeysToIds([i \in DOMAIN motors |-> NameKey(motors[i].name)], <<>>)
    ELSE IF marg.tag \in {"one", "list"} THEN KeysToIds(marg.keys, <<>>)
    ELSE [err |-> "TypeError", msg |-> "motors", map |-> <<>>]

\* [self._id_to_model(id_) for id_ in motor_ids]
RECURSIVE ModelsOf(_)
ModelsOf(motor_ids) ==
    IF motor_ids = <<>> THEN [err |-> "none", msg |-> "", models |-> <<>>]
    ELSE With(_id_to_model(Head(motor_ids)), LAMBDA m :
         IF m.err # "none" THEN [err |-> m.err, msg |-> m.msg, models |-> <<>>]
         ELSE With(ModelsOf(Tail(motor_ids)), LAMBDA rest :
              IF rest.err # "none" THEN rest
              ELSE [err |-> "none", msg |-> "", models |-> <<m.model>> \o rest.models]))

\* The cross-model guard of _sync_read and _sync_write.
CrossModelGuard(data_name, motor_ids) ==
    With(_has_different_ctrl_tables, LAMBDA h :
    IF h.err # "none" THEN [err |-> h.err, msg |-> h.msg]
    ELSE IF ~h.val THEN [err |-> "none", msg |-> ""]
    ELSE With(ModelsOf(motor_ids), LAMBDA ms :
         IF ms.err # "none" THEN [err |-> ms.err, msg |-> ms.msg]
         ELSE assert_same_address(ms.models, data_name)))

\* The guard, then the address of data_name for the model of the first motor.
GroupAddress(data_name, motor_ids) ==
    With(CrossModelGuard(data_name, motor_ids), LAMBDA g :
    IF g.err # "none" THEN [err |-> g.err, msg |-> g.msg, addr |-> 0, n_bytes |-> 0]
    ELSE IF motor_ids = <<>>
    THEN [err |-> "StopIteration", msg |-> "", addr |-> 0, n_bytes |-> 0]
    ELSE With(_id_to_model(Head(motor_ids)), LAMBDA m :
         IF m.err # "none" THEN [err |-> m.err, msg |-> m.msg, addr |-> 0, n_bytes |-> 0]
         ELSE get_address(m.model, data_name)))

\* "after {num_retry + 1} tries" in the messages of the connectivity errors.
TriesReported(num_retry) == num_retry + 1

(***************************************************************************)
(* sync_read                                                               *)
(***************************************************************************)
\* sync_read up to the call of _setup_sync_reader, on a connected bus.
SyncReadPlan(data_name, marg) ==
    With(id_key_map(marg), LAMBDA km :
    IF km.err # "none"
    THEN [err |-> km.err, msg |-> km.msg, map |-> <<>>, addr |-> 0, n_bytes |-> 0]
    ELSE With(GroupAddress(data_name, DictKeys(km.map)), LAMBDA ga :
         [err |-> ga.err, msg |-> ga.msg, map |-> km.map, addr |-> ga.addr,
          n_bytes |-> ga.n_bytes]))

sync_read_entry(data_name, marg) ==
    IF ~is_connected
    THEN [err |-> "DeviceNotConnectedError", msg |-> "is not connected", map |-> <<>>,
          addr |-> 0, n_bytes |-> 0]
    ELSE SyncReadPlan(data_name, marg)

\* A variant of _setup_sync_reader without clearParam: a reader that has ids keeps
\* them.
_setup_sync_reader_uncleared(motor_ids, addr, n_bytes) ==
    [start_address |-> addr, data_length |-> n_bytes,
     param |-> IF sync_reader.param = <<>> THEN motor_ids ELSE sync_reader.param]

\* clearParam, start_address, data_length, then addParam for each id.
_setup_sync_reader(motor_ids, addr, n_bytes) ==
    [start_address |-> addr, data_length |-> n_bytes, param |-> motor_ids]

sync_read(data_name, marg, normalize, num_retry) ==
    /\ pc = "idle"
    /\ entry' = Snapshot
    /\ wire' = <<>>
    /\ \E e \in {sync_read_entry(data_name, marg)} :
       LET frame == [NoCall EXCEPT !.op = "sync_read", !.data_name = data_name,
                                   !.marg = marg, !.normalize = normalize,
                                   !.num_retry = num_retry]
       IN IF e.err # "none"
          THEN /\ call' = frame
               /\ result' = Result("sync_read", e.err, e.msg)
               /\ pc' = "done"
               /\ UNCHANGED sync_reader
          ELSE /\ call' = [frame EXCEPT !.ids = DictKeys(e.map),
                                        !.keys = [i \in DOMAIN e.map |-> e.map[i].val],
                                        !.addr = e.addr, !.n_bytes = e.n_bytes]
               /\ sync_reader' = _setup_sync_reader(DictKeys(e.map), e.addr, e.n_bytes)
               /\ pc' = "sync_read"
               /\ result' = Result("sync_read", "pending", "")
    /\ UNCHANGED <<motors, calibration, is_open, packet_timeout, sync_writer>>

\* Whether the loop of _sync_read goes round again after try n_try answered comm.
sync_read_retries(comm, n_try, num_retry) ==
    ~_is_comm_success(comm) /\ n_try + 1 < 1 + num_retry

\* What the group reader holds for id_ after the transaction answered comm.
getData(id_, comm, base) == IF _is_comm_success(comm) THEN base + id_ ELSE 0

\* A variant of sync_read that returns what it fetched when the transaction failed.
sync_read_return_partial(comm, base) ==
    LET values == [i \in DOMAIN call.ids |->
                     [key |-> call.keys[i],
                      val |-> Val(_decode_value(getData(call.ids[i], comm, base), call.n_bytes), 1)]]
    IN [Result("sync_read", "none", "") EXCEPT !.fetched = Len(call.ids), !.ret = values]

\* sync_read from the end of the loop of _sync_read to its return.
sync_read_return(comm, base) ==
    LET values == [i \in DOMAIN call.ids |->
                     [id |-> call.ids[i],
                      val |-> Val(_decode_value(getData(call.ids[i], comm, base), call.n_bytes), 1)]]
        fetched == [Result("sync_read", "none", "") EXCEPT !.fetched = Len(call.ids)]
        KeyOf(id_) == call.keys[CHOOSE i \in DOMAIN call.ids : call.ids[i] = id_]
        Keyed(vals) == [i \in DOMAIN vals |-> [key |-> KeyOf(vals[i].id), val |-> vals[i].val]]
    IN IF ~_is_comm_success(comm)
       THEN [fetched EXCEPT !.err = "ConnectionError", !.msg = "Failed to sync read",
                            !.tries = TriesReported(call.num_retry)]
       ELSE IF call.normalize /\ call.data_name \in normalization_required
       THEN With(_normalize(values), LAMBDA n :
            IF n.err # "none" THEN [fetched EXCEPT !.err = n.err, !.msg = n.msg]
            ELSE [fetched EXCEPT !.ret = Keyed(n.vals)])
       ELSE [fetched EXCEPT !.ret = Keyed(values)]

\* One self.sync_reader.txRxPacket(): the transport answers comm and, on success,
\* base + id as the raw value of each motor.
sync_read_txRxPacket(comm, base) ==
    /\ pc = "sync_read"
    /\ wire' = Append(wire, Txn("sync_read", sync_reader.param, sync_reader.start_address,
                                sync_reader.data_length, <<>>, comm, _no_error))
    /\ IF sync_read_retries(comm, call.n_try, call.num_retry)
       THEN /\ call' = [call EXCEPT !.n_try = @ + 1]
            /\ UNCHANGED <<pc, result>>
       ELSE /\ pc' = "done"
            /\ result' = sync_read_return(comm, base)
            /\ UNCHANGED call
    /\ UNCHANGED <<motors, calibration, is_open, packet_timeout, sync_reader, sync_writer, entry>>

(***************************************************************************)
(* sync_write                                                              *)
(***************************************************************************)
\* {self._get_motor_id(motor): val for motor, val in values.items()}
RECURSIVE ItemsToIds(_, _)
ItemsToIds(items, acc) ==
    IF items = <<>> THEN [err |-> "none", msg |-> "", vals |-> acc]
    ELSE With(_get_motor_id(Head(items).key), LAMBDA r :
         IF r.err # "none" THEN [err |-> r.err, msg |-> r.msg, vals |-> <<>>]
         ELSE ItemsToIds(Tail(items), DictPut(acc, r.id, Head(items).val)))

\* {id_: values for id_ in self.ids}
RECURSIVE AllIds(_, _, _)
AllIds(id_list, v, acc) ==
    IF id_list = <<>> THEN acc ELSE AllIds(Tail(id_list), v, DictPut(acc, Head(id_list), v))

\* The ids_values of sync_write for its values argument.
ids_values_of(varg) ==
    IF varg.tag = "int" THEN [err |-> "none", msg |-> "", vals |-> AllIds(ids, varg.v, <<>>)]
    ELSE IF varg.tag = "dict" THEN ItemsToIds(varg.items, <<>>)
    ELSE [err |-> "TypeError", msg |-> "values", vals |-> <<>>]

\* The addParam loop of _setup_sync_writer: it stops at the value that does not split.
RECURSIVE AddParams(_, _, _)
AddParams(ids_values, n_bytes, acc) ==
    IF ids_values = <<>> THEN [err |-> "none", msg |-> "", param |-> acc]
    ELSE With(_split_int_to_bytes(Head(ids_values).val.num, n_bytes), LAMBDA d :
         IF d.err # "none" THEN [err |-> d.err, msg |-> d.msg, param |-> acc]
         ELSE AddParams(Tail(ids_values), n_bytes,
                        Append(acc, [id |-> Head(ids_values).id, data |-> d.data])))

_setup_sync_writer(ids_values, addr, n_bytes) ==
    With(AddParams(ids_values, n_bytes, <<>>), LAMBDA a :
    [err |-> a.err, msg |-> a.msg,
     writer |-> [start_address |-> addr, data_length |-> n_bytes, param |-> a.param]])

\* sync_write up to the end of _setup_sync_writer, on a connected bus.
SyncWritePlan(data_name, varg, normalize, rounding) ==
    LET failed(e) == [err |-> e.err, msg |-> e.msg, vals |-> <<>>, addr |-> 0, n_bytes |-> 0,
                      writer |-> sync_writer]
        unnormalized(iv) == IF normalize /\ data_name \in normalization_required
                            THEN _unnormalize(iv.vals, rounding) ELSE iv
        encoded(un, n_bytes) == [i \in DOMAIN un.vals |->
                                   [id |-> un.vals[i].id,
                                    val |-> Val(_encode_value(un.vals[i].val.num, n_bytes), 1)]]
    IN With(ids_values_of(varg), LAMBDA iv :
       IF iv.err # "none" THEN failed(iv)
       ELSE With(unnormalized(iv), LAMBDA un :
       IF un.err # "none" THEN failed(un)
       ELSE With(GroupAddress(data_name, DictKeys(un.vals)), LAMBDA ga :
       IF ga.err # "none" THEN failed(ga)
       ELSE With(_setup_sync_writer(encoded(un, ga.n_bytes), ga.addr, ga.n_bytes), LAMBDA w :
            [err |-> w.err, msg |-> w.msg, vals |-> un.vals, addr |-> ga.addr,
             n_bytes |-> ga.n_bytes, writer |-> w.writer]))))

\* A variant of sync_write that looks at is_connected only after its arguments.
sync_write_entry_late(data_name, varg, normalize, rounding) ==
    With(SyncWritePlan(data_name, varg, normalize, rounding), LAMBDA plan :
    IF plan.err = "none" /\ ~is_connected
    THEN [plan EXCEPT !.err = "DeviceNotConnectedError", !.msg = "is not connected"]
    ELSE plan)

sync_write_entry(data_name, varg, normalize, rounding) ==
    IF ~is_connected
    THEN [err |-> "DeviceNotConnectedError", msg |-> "is not connected", vals |-> <<>>,
          addr |-> 0, n_bytes |-> 0, writer |-> sync_writer]
    ELSE SyncWritePlan(data_name, varg, normalize, rounding)

sync_write(data_name, varg, normalize, num_retry) ==
    /\ pc = "idle"
    /\ entry' = Snapshot
    /\ wire' = <<>>
    /\ \E e \in {sync_write_entry(data_name, varg, normalize, rounding) : rounding \in Roundings} :
       LET frame == [NoCall EXCEPT !.op = "sync_write", !.data_name = data_name,
                                   !.varg = varg, !.normalize = normalize,
                                   !.num_retry = num_retry]
       IN /\ sync_writer' = e.writer
          /\ IF e.err # "none"
             THEN /\ call' = frame
                  /\ result' = Result("sync_write", e.err, e.msg)
                  /\ pc' = "done"
             ELSE /\ call' = [frame EXCEPT !.ids = DictKeys(e.vals), !.payload = e.vals,
                                           !.addr = e.addr, !.n_bytes = e.n_bytes]
                  /\ pc' = "sync_write"
                  /\ result' = Result("sync_write", "pending", "")
    /\ UNCHANGED <<motors, calibration, is_open, packet_timeout, sync_reader>>

\* A variant of the loop of _sync_write that makes num_retry tries in all.
sync_write_retries_short(comm, n_try, num_retry) ==
    ~_is_comm_success(comm) /\ n_try + 1 < num_retry

\* Whether the loop of _sync_write goes round again after try n_try answered comm.
sync_write_retries(comm, n_try, num_retry) ==
    ~_is_comm_success(comm) /\ n_try + 1 < 1 + num_retry

\* sync_write after _sync_write returned comm.
sync_write_return(comm) ==
    IF ~_is_comm_success(comm)
    THEN [Result("sync_write", "ConnectionError", "Failed to sync write")
            EXCEPT !.tries = TriesReported(call.num_retry)]
    ELSE Result("sync_write", "none", "")

\* One self.sync_writer.txPacket().
sync_write_txPacket(comm) ==
    /\ pc = "sync_write"
    /\ wire' = Append(wire, Txn("sync_write", DictKeys(sync_writer.param),
                                sync_writer.start_address, sync_writer.data_length,
                                sync_writer.param, comm, _no_error))
    /\ IF sync_write_retries(comm, call.n_try, call.num_retry)
       THEN /\ call' = [call EXCEPT !.n_try = @ + 1]
            /\ UNCHANGED <<pc, result>>
       ELSE /\ pc' = "done"
            /\ result' = sync_write_return(comm)
            /\ UNCHANGED call
    /\ UNCHANGED <<motors, calibration, is_open, packet_timeout, sync_reader, sync_writer, entry>>

(***************************************************************************)
(* write                                                                   *)
(***************************************************************************)
\* write up to the loop of _write, on a connected bus.
WritePlan(data_name, motor, value, normalize, rounding) ==
    LET failed(e) == [err |-> e.err, msg |-> e.msg, id |-> 0, value |-> Val(0, 1), addr |-> 0,
                      n_bytes |-> 0, data |-> <<>>]
        unnormalized(id_) == IF normalize /\ data_name \in normalization_required
                             THEN _unnormalize(<<[id |-> id_, val |-> value]>>, rounding)
                             ELSE [err |-> "none", msg |-> "",
                                   vals |-> <<[id |-> id_, val |-> value]>>]
    IN With(_get_motor_id(motor), LAMBDA i :
       IF i.err # "none" THEN failed(i)
       ELSE With(unnormalized(i.id), LAMBDA un :
       IF un.err # "none" THEN failed(un)
       ELSE With(_id_to_model(i.id), LAMBDA m :
       IF m.err # "none" THEN failed(m)
       ELSE With(get_address(m.model, data_name), LAMBDA a :
       IF a.err # "none" THEN failed(a)
       ELSE With(_split_int_to_bytes(_encode_value(un.vals[1].val.num, a.n_bytes), a.n_bytes),
                 LAMBDA d :
            [err |-> d.err, msg |-> d.msg, id |-> i.id, value |-> un.vals[1].val,
             addr |-> a.addr, n_bytes |-> a.n_bytes, data |-> d.data])))))

write_entry(data_name, motor, value, normalize, rounding) ==
    IF ~is_connected
    THEN [err |-> "DeviceNotConnectedError", msg |-> "is not connected", id |-> 0,
          value |-> Val(0, 1), addr |-> 0, n_bytes |-> 0, data |-> <<>>]
    ELSE WritePlan(data_name, motor, value, normalize, rounding)

write(data_name, motor, value, normalize, num_retry) ==
    /\ pc = "idle"
    /\ entry' = Snapshot
    /\ wire' = <<>>
    /\ \E e \in {write_entry(data_name, motor, value, normalize, rounding) : rounding \in Roundings} :
       LET frame == [NoCall EXCEPT !.op = "write", !.data_name = data_name,
                                   !.marg = One(motor), !.varg = [tag |-> "int", v |-> value, items |-> <<>>],
                                   !.normalize = normalize, !.num_retry = num_retry]
       IN IF e.err # "none"
          THEN /\ call' = frame
               /\ result' = Result("write", e.err, e.msg)
               /\ pc' = "done"
          ELSE /\ call' = [frame EXCEPT !.ids = <<e.id>>,
                                        !.payload = <<[id |-> e.id, data |-> e.data]>>,
                                        !.addr = e.addr, !.n_bytes = e.n_bytes]
               /\ pc' = "write"
               /\ result' = Result("write", "pending", "")
    /\ UNCHANGED <<motors, calibration, is_open, packet_timeout, sync_reader, sync_writer>>

\* A variant of the loop of _write that also retries a device error.
write_retries_on_error(comm, error, n_try, num_retry) ==
    (~_is_comm_success(comm) \/ _is_error(error)) /\ n_try + 1 < 1 + num_retry

\* Whether the loop of _write goes round again after try n_try answered comm, error.
write_retries(comm, error, n_try, num_retry) ==
    ~_is_comm_success(comm) /\ n_try + 1 < 1 + num_retry

\* A variant of write that looks at the device error before the comm status.
write_return_error_first(comm, error) ==
    IF _is_error(error)
    THEN [Result("write", "RuntimeError", "Failed to write")
            EXCEPT !.tries = TriesReported(call.num_retry)]
    ELSE IF ~_is_comm_success(comm)
    THEN [Result("write", "ConnectionError", "Failed to write")
            EXCEPT !.tries = TriesReported(call.num_retry)]
    ELSE Result("write", "none", "")

\* write after _write returned comm, error.
write_return(comm, error) ==
    IF ~_is_comm_success(comm)
    THEN [Result("write", "ConnectionError", "Failed to write")
            EXCEPT !.tries = TriesReported(call.num_retry)]
    ELSE IF _is_error(error)
    THEN [Result("write", "RuntimeError", "Failed to write")
            EXCEPT !.tries = TriesReported(call.num_retry)]
    ELSE Result("write", "none", "")

\* One self.packet_handler.writeTxRx(...).
write_writeTxRx(comm, error) ==
    /\ pc = "write"
    /\ wire' = Append(wire, Txn("write", call.ids, call.addr, call.n_bytes, call.payload,
                                comm, error))
    /\ IF write_retries(comm, error, call.n_try, call.num_retry)
       THEN /\ call' = [call EXCEPT !.n_try = @ + 1]
            /\ UNCHANGED <<pc, result>>
       ELSE /\ pc' = "done"
            /\ result' = write_return(comm, error)
            /\ UNCHANGED call
    /\ UNCHANGED <<motors, calibration, is_open, packet_timeout, sync_reader, sync_writer, entry>>

(***************************************************************************)
(* ping                                                                    *)
(***************************************************************************)
\* ping before its loop: it resolves the id and does not look at is_connected.
ping_entry(motor) == _get_motor_id(motor)

ping(motor, num_retry, raise_on_error) ==
    /\ pc = "idle"
    /\ entry' = Snapshot
    /\ wire' = <<>>
    /\ \E e \in {ping_entry(motor)} :
       LET frame == [NoCall EXCEPT !.op = "ping", !.marg = One(motor),
                                   !.num_retry = num_retry, !.raise_on_error = raise_on_error]
       IN IF e.err # "none"
          THEN /\ call' = frame
               /\ result' = Result("ping", e.err, e.msg)
               /\ pc' = "done"
          ELSE /\ call' = [frame EXCEPT !.ids = <<e.id>>]
               /\ pc' = "ping"
               /\ result' = Result("ping", "pending", "")
    /\ UNCHANGED <<motors, calibration, is_open, packet_timeout, sync_reader, sync_writer>>

\* A variant of the loop of ping that does not break on success.
ping_retries_always(comm, n_try, num_retry) == n_try + 1 < 1 + num_retry

\* Whether the loop of ping goes round again after try n_try answered comm.
ping_retries(comm, n_try, num_retry) ==
    ~_is_comm_success(comm) /\ n_try + 1 < 1 + num_retry

\* A variant of ping that raises in lenient mode too.
ping_return_always_strict(model_number, comm, error) ==
    IF ~_is_comm_success(comm) THEN Result("ping", "ConnectionError", "comm")
    ELSE IF _is_error(error) THEN Result("ping", "RuntimeError", "error")
    ELSE [Result("ping", "none", "") EXCEPT !.model_number = model_number]

\* ping after its loop.
ping_return(model_number, comm, error) ==
    IF ~_is_comm_success(comm)
    THEN IF call.raise_on_error THEN Result("ping", "ConnectionError", "comm")
         ELSE Result("ping", "none", "")
    ELSE IF _is_error(error)
    THEN IF call.raise_on_error THEN Result("ping", "RuntimeError", "error")
         ELSE Result("ping", "none", "")
    ELSE [Result("ping", "none", "") EXCEPT !.model_number = model_number]

\* One self.packet_handler.ping(self.port_handler, id_).
ping_packet(model_number, comm, error) ==
    /\ pc = "ping"
    /\ wire' = Append(wire, Txn("ping", call.ids, 0, 0, <<model_number>>, comm, error))
    /\ IF ping_retries(comm, call.n_try, call.num_retry)
       THEN /\ call' = [call EXCEPT !.n_try = @ + 1]
            /\ UNCHANGED <<pc, result>>
       ELSE /\ pc' = "done"
            /\ result' = ping_return(model_number, comm, error)
            /\ UNCHANGED call
    /\ UNCHANGED <<motors, calibration, is_open, packet_timeout, sync_reader, sync_writer, entry>>

\* A caller who has control makes any call; a call in its retry loop makes its next
\* transaction, to which the transport gives any answer; a call that ended returns.
Next ==
    \/ pc = "idle" /\ \E a \in BOOLEAN, o \in {"true", "false", "raises"},
                         p \in {"answers", "raises"}, f \in FoundSets : connect(a, o, p, f)
    \/ disconnect
    \/ pc = "idle" /\ \E t \in Timeouts \cup {default_timeout} : set_timeout(t)
    \/ pc = "idle" /\ \E c \in SyncReadCalls :
                         sync_read(c.data_name, c.motors, c.normalize, c.num_retry)
    \/ pc = "idle" /\ \E c \in SyncWriteCalls :
                         sync_write(c.data_name, c.values, c.normalize, c.num_retry)
    \/ pc = "idle" /\ \E c \in WriteCalls :
                         write(c.data_name, c.motor, c.value, c.normalize, c.num_retry)
    \/ pc = "idle" /\ \E c \in PingCalls : ping(c.motor, c.num_retry, c.raise_on_error)
    \/ pc = "sync_read" /\ \E c \in CommStatuses, b \in ReadBases : sync_read_txRxPacket(c, b)
    \/ pc = "sync_write" /\ \E c \in CommStatuses : sync_write_txPacket(c)
    \/ pc = "write" /\ \E c \in CommStatuses, e \in ErrorCodes : write_writeTxRx(c, e)
    \/ pc = "ping" /\ \E a \in PingAnswers : ping_packet(a.model_number, a.comm, a.error)
    \/ Return

Spec == Init /\ [][Next]_vars

\* The same program started from any constructor arguments, valid or not.
SpecAny == InitAny /\ [][Next]_vars

(***************************************************************************)
(* The calibration transform on its own                                    *)
(***************************************************************************)
\* Calibrations have range_min and range_max in -RawLimit..RawLimit, and raw values
\* are taken up to Over ticks outside the range.
RawLimit == 6
Over == 2

JointMotors(mode) == << Motor("joint", 1, "sts3215", mode) >>
JointCalibration(lo, hi) == ("joint" :> MotorCalibration(1, 0, 0, lo, hi))

\* The three-motor bus, and every bus of one motor with a supported mode and a
\* calibration with range_min < range_max.
CalibratedBuses ==
    { [motors |-> MixedMotors, calibration |-> MixedCalibration] }
    \cup { [motors |-> JointMotors(mode), calibration |-> JointCalibration(lo, hi)] :
             mode \in {"RANGE_M100_100", "RANGE_0_100"},
             lo \in -RawLimit..(RawLimit - 1), hi \in (1 - RawLimit)..RawLimit }
InitCalibrated == \E bus \in CalibratedBuses :
                     /\ bus.calibration[bus.motors[1].name].range_min
                          < bus.calibration[bus.motors[1].name].range_max
                     /\ Construct(bus)

\* The raw values read from motor i: its range and Over ticks on each side.
RawValues(i) ==
    (calibration[motors[i].name].range_min - Over)
      ..(calibration[motors[i].name].range_max + Over)

\* The ids_values given to _normalize: one motor with any raw value, or two motors
\* each at its range_min.
RawDicts ==
    UNION { { <<[id |-> motors[i].id, val |-> Val(x, 1)]>> : x \in RawValues(i) } :
              i \in DOMAIN motors }
    \cup { <<[id |-> motors[p[1]].id, val |-> Val(calibration[motors[p[1]].name].range_min, 1)],
             [id |-> motors[p[2]].id, val |-> Val(calibration[motors[p[2]].name].range_min, 1)]>> :
             p \in { q \in (DOMAIN motors) \X (DOMAIN motors) : q[1] # q[2] } }

\* self._normalize(data_name, ids_values), called on its own.
normalize_call(ids_values) ==
    /\ pc = "idle"
    /\ entry' = Snapshot
    /\ wire' = <<>>
    /\ call' = [NoCall EXCEPT !.op = "_normalize", !.data_name = "Goal_Position",
                              !.ids = DictKeys(ids_values), !.payload = ids_values]
    /\ \E r \in {_normalize(ids_values)} :
          result' = [Result("_normalize", r.err, r.msg) EXCEPT !.ret = r.vals]
    /\ pc' = "done"
    /\ UNCHANGED <<motors, calibration, is_open, packet_timeout, sync_reader, sync_writer>>

\* self._unnormalize(data_name, normalized), called on what _normalize returned;
\* call.payload keeps the raw values the round trip started from.
unnormalize_call(rounding) ==
    /\ pc = "done" /\ call.op = "_normalize" /\ result.err = "none"
    /\ call' = [call EXCEPT !.op = "_unnormalize"]
    /\ \E r \in {_unnormalize(result.ret, rounding)} :
          result' = [Result("_unnormalize", r.err, r.msg) EXCEPT !.ret = r.vals]
    /\ UNCHANGED <<motors, calibration, is_open, packet_timeout, sync_reader, sync_writer,
                   pc, wire, entry>>

NextTransform ==
    \/ pc = "idle" /\ \E d \in RawDicts : normalize_call(d)
    \/ pc = "done" /\ \E r \in Roundings : unnormalize_call(r)
    \/ Return

SpecTransform == InitCalibrated /\ [][NextTransform]_vars

(***************************************************************************)
(* Calls made by the calibration procedures                                *)
(***************************************************************************)
\* motors = self.names / [motors] / motors / TypeError, as reset_calibration and
\* record_ranges_of_motion resolve their motors argument.
MotorList(marg) ==
    IF marg.tag = "none"
    THEN [err |-> "none", msg |-> "", keys |-> [i \in DOMAIN motors |-> NameKey(motors[i].name)]]
    ELSE IF marg.tag \in {"one", "list"} THEN [err |-> "none", msg |-> "", keys |-> marg.keys]
    ELSE [err |-> "TypeError", msg |-> "motors", keys |-> <<>>]

\* d[k] on a dict kept as a sequence of [key, val].
HasKey(d, k) == \E i \in DOMAIN d : d[i].key = k
Lookup(d, k) == d[CHOOSE i \in DOMAIN d : d[i].key = k].val

\* self.write(data_name, motor, value, normalize=normalize) with the default
\* num_retry=0, whose one transaction the transport answers comm, error.  None of
\* the parameters the procedures write is normalization-required.
WriteOnce(data_name, motor, value, normalize, comm, error) ==
    With(write_entry(data_name, motor, Val(value, 1), normalize, "exact"), LAMBDA e :
    IF e.err # "none" THEN [err |-> e.err, msg |-> e.msg, wire |-> <<>>]
    ELSE With(write_return(comm, error), LAMBDA r :
         [err |-> r.err, msg |-> r.msg,
          wire |-> <<Txn("write", <<e.id>>, e.addr, e.n_bytes,
                         <<[id |-> e.id, data |-> e.data]>>, comm, error)>>]))

\* A variant of the raw sync_read that returns what it fetched when the transaction
\* failed.
ReadOnce_partial(data_name, marg, comm, base) ==
    With(sync_read_entry(data_name, marg), LAMBDA e :
    IF e.err # "none"
    THEN [err |-> e.err, msg |-> e.msg, ret |-> <<>>, reader |-> sync_reader, wire |-> <<>>]
    ELSE [err |-> "none", msg |-> "",
          ret |-> [i \in DOMAIN e.map |->
                     [key |-> e.map[i].val,
                      val |-> _decode_value(getData(e.map[i].id, comm, base), e.n_bytes)]],
          reader |-> _setup_sync_reader(DictKeys(e.map), e.addr, e.n_bytes),
          wire |-> <<Txn("sync_read", DictKeys(e.map), e.addr, e.n_bytes, <<>>, comm,
                         _no_error)>>])

\* self.sync_read(data_name, motors, normalize=False) with the default num_retry=0,
\* whose one transaction the transport answers comm and, on success, base + id as
\* the raw value of each motor.
ReadOnce(data_name, marg, comm, base) ==
    With(sync_read_entry(data_name, marg), LAMBDA e :
    IF e.err # "none"
    THEN [err |-> e.err, msg |-> e.msg, ret |-> <<>>, reader |-> sync_reader, wire |-> <<>>]
    ELSE [err |-> IF _is_comm_success(comm) THEN "none" ELSE "ConnectionError",
          msg |-> IF _is_comm_success(comm) THEN "" ELSE "Failed to sync read",
          ret |-> IF _is_comm_success(comm)
                  THEN [i \in DOMAIN e.map |->
                          [key |-> e.map[i].val,
                           val |-> _decode_value(getData(e.map[i].id, comm, base), e.n_bytes)]]
                  ELSE <<>>,
          reader |-> _setup_sync_reader(DictKeys(e.map), e.addr, e.n_bytes),
          wire |-> <<Txn("sync_read", DictKeys(e.map), e.addr, e.n_bytes, <<>>, comm,
                         _no_error)>>])

(***************************************************************************)
(* reset_calibration                                                       *)
(***************************************************************************)
\* The three registers reset_calibration and write_calibration write, in order.
CalibrationRegisters == <<"Homing_Offset", "Min_Position_Limit", "Max_Position_Limit">>

\* A variant of the value reset_calibration writes that gives the range its
\* resolution as maximum.
ResetValue_resolution(model, register) ==
    IF register = "Max_Position_Limit" THEN model_resolution_table[model] ELSE 0

\* What reset_calibration writes to register of a motor of model.
ResetValue(model, register) ==
    IF register = "Max_Position_Limit" THEN model_resolution_table[model] - 1 ELSE 0

\* Write number k (from 0) of reset_calibration over the motors keys: the model and
\* its resolution are looked up at the first of the three writes of a motor.
ResetWrite(keys, k, comm, error) ==
    With(_get_motor_model(keys[(k \div 3) + 1]), LAMBDA m :
    IF m.err # "none" THEN [err |-> m.err, msg |-> m.msg, wire |-> <<>>]
    ELSE IF m.model \notin DOMAIN model_resolution_table
    THEN [err |-> "KeyError", msg |-> "model", wire |-> <<>>]
    ELSE WriteOnce(CalibrationRegisters[(k % 3) + 1], keys[(k \div 3) + 1],
                   ResetValue(m.model, CalibrationRegisters[(k % 3) + 1]), FALSE, comm, error))

reset_calibration(marg) ==
    /\ pc = "idle"
    /\ entry' = Snapshot
    /\ wire' = <<>>
    /\ \E ml \in {MotorList(marg)} :
       LET frame == [NoCall EXCEPT !.op = "reset_calibration", !.marg = marg] IN
       IF ml.err # "none" \/ ml.keys = <<>>
       THEN /\ call' = frame
            /\ result' = Result("reset_calibration", ml.err, ml.msg)
            /\ pc' = "done"
       ELSE /\ call' = [frame EXCEPT !.keys = ml.keys]
            /\ result' = Result("reset_calibration", "pending", "")
            /\ pc' = "reset_calibration"
    /\ UNCHANGED <<motors, calibration, is_open, packet_timeout, sync_reader, sync_writer>>

\* One self.write(...) of the loop of reset_calibration.
reset_calibration_write(comm, error) ==
    /\ pc = "reset_calibration"
    /\ \E r \in {ResetWrite(call.keys, call.step, comm, error)} :
          /\ wire' = wire \o r.wire
          /\ IF r.err # "none"
             THEN /\ pc' = "done"
                  /\ result' = Result("reset_calibration", r.err, r.msg)
                  /\ UNCHANGED call
             ELSE /\ call' = [call EXCEPT !.step = @ + 1]
                  /\ IF call.step + 1 = 3 * Len(call.keys)
                     THEN /\ pc' = "done"
                          /\ result' = Result("reset_calibration", "none", "")
                     ELSE UNCHANGED <<pc, result>>
    /\ UNCHANGED <<motors, calibration, is_open, packet_timeout, sync_reader, sync_writer, entry>>

(***************************************************************************)
(* write_calibration / read_calibration                                    *)
(***************************************************************************)
\* The value write_calibration writes to register for the record c.
CalibrationValue(c, register) ==
    IF register = "Homing_Offset" THEN c.homing_offset
    ELSE IF register = "Min_Position_Limit" THEN c.range_min
    ELSE c.range_max

\* The dict calibration_dict, given as a sequence of [key, val], as a map from names.
AsCalibration(calibration_dict) ==
    [n \in { calibration_dict[i].key.name : i \in DOMAIN calibration_dict } |->
       Lookup(calibration_dict, NameKey(n))]

\* A variant of write_calibration that adopts the calibration before it writes.
AdoptsAt_first(k, calibration_dict) == k = 1

\* A variant of write_calibration that adopts the calibration at each write.
AdoptsAt_each(k, calibration_dict) == TRUE

\* self.calibration = calibration_dict comes after the last of the k writes made.
AdoptsAt(k, calibration_dict) == k = 3 * Len(calibration_dict)

write_calibration(calibration_dict) ==
    /\ pc = "idle"
    /\ entry' = Snapshot
    /\ wire' = <<>>
    /\ call' = [NoCall EXCEPT !.op = "write_calibration", !.cal = calibration_dict]
    /\ IF calibration_dict = <<>>
       THEN /\ calibration' = AsCalibration(calibration_dict)
            /\ result' = Result("write_calibration", "none", "")
            /\ pc' = "done"
       ELSE /\ result' = Result("write_calibration", "pending", "")
            /\ pc' = "write_calibration"
            /\ UNCHANGED calibration
    /\ UNCHANGED <<motors, is_open, packet_timeout, sync_reader, sync_writer>>

\* One self.write(...) of the loop of write_calibration, with the default
\* normalize=True.
write_calibration_write(comm, error) ==
    /\ pc = "write_calibration"
    /\ \E r \in {WriteOnce(CalibrationRegisters[(call.step % 3) + 1],
                          call.cal[(call.step \div 3) + 1].key,
                          CalibrationValue(call.cal[(call.step \div 3) + 1].val,
                                           CalibrationRegisters[(call.step % 3) + 1]),
                          TRUE, comm, error)} :
          /\ wire' = wire \o r.wire
          /\ IF r.err # "none"
             THEN /\ pc' = "done"
                  /\ result' = Result("write_calibration", r.err, r.msg)
                  /\ UNCHANGED <<call, calibration>>
             ELSE /\ call' = [call EXCEPT !.step = @ + 1]
                  /\ calibration' = IF AdoptsAt(call.step + 1, call.cal)
                                    THEN AsCalibration(call.cal) ELSE calibration
                  /\ IF call.step + 1 = 3 * Len(call.cal)
                     THEN /\ pc' = "done"
                          /\ result' = Result("write_calibration", "none", "")
                     ELSE UNCHANGED <<pc, result>>
    /\ UNCHANGED <<motors, is_open, packet_timeout, sync_reader, sync_writer, entry>>

\* The four group reads of read_calibration, in order.
ReadCalibrationRegisters ==
    <<"Homing_Offset", "Min_Position_Limit", "Max_Position_Limit", "Drive_Mode">>

\* {name: 0 for name in self.names}
ZeroDriveModes == [i \in DOMAIN motors |-> [key |-> NameKey(motors[i].name), val |-> 0]]

\* The records read_calibration builds from what its four reads returned.
BuildCalibration(offsets, mins_, maxes_, drive_modes) ==
    IF \E i \in DOMAIN motors :
          \E d \in {offsets, mins_, maxes_, drive_modes} : ~HasKey(d, NameKey(motors[i].name))
    THEN [err |-> "KeyError", msg |-> "name", ret |-> <<>>]
    ELSE [err |-> "none", msg |-> "",
          ret |-> [i \in DOMAIN motors |->
                     [key |-> NameKey(motors[i].name),
                      val |-> MotorCalibration(motors[i].id,
                                               Lookup(drive_modes, NameKey(motors[i].name)),
                                               Lookup(offsets, NameKey(motors[i].name)),
                                               Lookup(mins_, NameKey(motors[i].name)),
                                               Lookup(maxes_, NameKey(motors[i].name)))]]]

read_calibration ==
    /\ pc = "idle"
    /\ entry' = Snapshot
    /\ wire' = <<>>
    /\ call' = [NoCall EXCEPT !.op = "read_calibration"]
    /\ result' = Result("read_calibration", "pending", "")
    /\ pc' = "read_calibration"
    /\ UNCHANGED <<motors, calibration, is_open, packet_timeout, sync_reader, sync_writer>>

\* A variant of the except clause of read_calibration that catches nothing.
DriveModeDefaulted_never(err) == FALSE

\* except KeyError around the read of Drive_Mode.
DriveModeDefaulted(err) == err = "KeyError"

\* One self.sync_read(...) of read_calibration, whose result call.acc keeps; after
\* the fourth, the records.
read_calibration_read(comm, base) ==
    /\ pc = "read_calibration"
    /\ \E r \in {ReadOnce(ReadCalibrationRegisters[call.step + 1], NoMotors, comm, base)} :
          /\ wire' = wire \o r.wire
          /\ sync_reader' = r.reader
          /\ IF call.step < 3
             THEN IF r.err # "none"
                  THEN /\ pc' = "done"
                       /\ result' = Result("read_calibration", r.err, r.msg)
                       /\ UNCHANGED call
                  ELSE /\ call' = [call EXCEPT !.step = @ + 1, !.acc = Append(@, r.ret)]
                       /\ UNCHANGED <<pc, result>>
             ELSE /\ pc' = "done"
                  /\ call' = [call EXCEPT !.step = @ + 1,
                                          !.acc = IF r.err = "none" THEN Append(@, r.ret) ELSE @]
                  /\ IF r.err # "none" /\ ~DriveModeDefaulted(r.err)
                     THEN result' = Result("read_calibration", r.err, r.msg)
                     ELSE \E b \in {BuildCalibration(call.acc[1], call.acc[2], call.acc[3],
                                                      IF r.err = "none" THEN r.ret
                                                      ELSE ZeroDriveModes)} :
                             result' = [Result("read_calibration", b.err, b.msg)
                                          EXCEPT !.ret = b.ret]
    /\ UNCHANGED <<motors, calibration, is_open, packet_timeout, sync_writer, entry>>

(***************************************************************************)
(* set_half_turn_homings                                                   *)
(***************************************************************************)
\* motors = self.names / [motors] / TypeError: a list is not accepted.
HalfTurnMotorList(marg) ==
    IF marg.tag = "none"
    THEN [err |-> "none", msg |-> "", keys |-> [i \in DOMAIN motors |-> NameKey(motors[i].name)]]
    ELSE IF marg.tag = "one" THEN [err |-> "none", msg |-> "", keys |-> marg.keys]
    ELSE [err |-> "TypeError", msg |-> "motors", keys |-> <<>>]

\* The vendor's _get_half_turn_homings: the offset that puts the position read at
\* the midpoint of one revolution of the motor's model.
RECURSIVE _get_half_turn_homings(_)
_get_half_turn_homings(positions) ==
    IF positions = <<>> THEN [err |-> "none", msg |-> "", ret |-> <<>>]
    ELSE With(_get_motor_model(Head(positions).key), LAMBDA m :
         IF m.err # "none" THEN [err |-> m.err, msg |-> m.msg, ret |-> <<>>]
         ELSE With(_get_half_turn_homings(Tail(positions)), LAMBDA rest :
              IF rest.err # "none" THEN rest
              ELSE [err |-> "none", msg |-> "",
                    ret |-> <<[key |-> Head(positions).key,
                               val |-> Head(positions).val
                                         - ((model_resolution_table[m.model] - 1) \div 2)]>>
                            \o rest.ret]))

set_half_turn_homings(marg) ==
    /\ pc = "idle"
    /\ entry' = Snapshot
    /\ wire' = <<>>
    /\ \E ml \in {HalfTurnMotorList(marg)} :
       LET frame == [NoCall EXCEPT !.op = "set_half_turn_homings", !.marg = marg] IN
       IF ml.err # "none"
       THEN /\ call' = frame
            /\ result' = Result("set_half_turn_homings", ml.err, ml.msg)
            /\ pc' = "done"
       ELSE /\ call' = [frame EXCEPT !.keys = ml.keys]
            /\ result' = Result("set_half_turn_homings", "pending", "")
            /\ pc' = "half_turn_reset"
    /\ UNCHANGED <<motors, calibration, is_open, packet_timeout, sync_reader, sync_writer>>

\* A variant of step 1 that is over after the writes of the first motor.
ResetDone_first_motor(k, keys) == k = 3

\* Whether the k writes made are all of self.reset_calibration(motors).
ResetDone(k, keys) == k = 3 * Len(keys)

\* Step 1: one self.write(...) of self.reset_calibration(motors).
half_turn_reset_write(comm, error) ==
    /\ pc = "half_turn_reset"
    /\ \E r \in {ResetWrite(call.keys, call.step, comm, error)} :
          /\ wire' = wire \o r.wire
          /\ IF r.err # "none"
             THEN /\ pc' = "done"
                  /\ result' = Result("set_half_turn_homings", r.err, r.msg)
                  /\ UNCHANGED call
             ELSE /\ call' = [call EXCEPT !.step = IF ResetDone(call.step + 1, call.keys)
                                                   THEN 0 ELSE @ + 1]
                  /\ pc' = IF ResetDone(call.step + 1, call.keys)
                           THEN "half_turn_read" ELSE "half_turn_reset"
                  /\ UNCHANGED result
    /\ UNCHANGED <<motors, calibration, is_open, packet_timeout, sync_reader, sync_writer, entry>>

\* Steps 2 and 3: the raw read of Present_Position and the offsets computed from it;
\* call.mins keeps the positions read and call.acc the offsets.
half_turn_read(comm, base) ==
    /\ pc = "half_turn_read"
    /\ \E r \in {ReadOnce("Present_Position", List(call.keys), comm, base)} :
          /\ wire' = wire \o r.wire
          /\ sync_reader' = r.reader
          /\ IF r.err # "none"
             THEN /\ pc' = "done"
                  /\ result' = Result("set_half_turn_homings", r.err, r.msg)
                  /\ UNCHANGED call
             ELSE \E h \in {_get_half_turn_homings(r.ret)} :
                     IF h.err # "none"
                     THEN /\ pc' = "done"
                          /\ result' = Result("set_half_turn_homings", h.err, h.msg)
                          /\ call' = [call EXCEPT !.mins = r.ret]
                     ELSE /\ pc' = "half_turn_write"
                          /\ call' = [call EXCEPT !.mins = r.ret, !.acc = h.ret]
                          /\ UNCHANGED result
    /\ UNCHANGED <<motors, calibration, is_open, packet_timeout, sync_writer, entry>>

\* Step 4: one self.write("Homing_Offset", motor, offset).
half_turn_write(comm, error) ==
    /\ pc = "half_turn_write"
    /\ \E r \in {WriteOnce("Homing_Offset", call.acc[call.step + 1].key,
                          call.acc[call.step + 1].val, TRUE, comm, error)} :
          /\ wire' = wire \o r.wire
          /\ IF r.err # "none"
             THEN /\ pc' = "done"
                  /\ result' = Result("set_half_turn_homings", r.err, r.msg)
                  /\ UNCHANGED call
             ELSE /\ call' = [call EXCEPT !.step = @ + 1]
                  /\ IF call.step + 1 = Len(call.acc)
                     THEN /\ pc' = "done"
                          /\ result' = [Result("set_half_turn_homings", "none", "")
                                          EXCEPT !.ret = call.acc]
                     ELSE UNCHANGED <<pc, result>>
    /\ UNCHANGED <<motors, calibration, is_open, packet_timeout, sync_reader, sync_writer, entry>>

(***************************************************************************)
(* record_ranges_of_motion                                                 *)
(***************************************************************************)
\* The loop has no bound; call.step counts its samples up to MaxSamples, and the
\* transactions of later samples are not kept on the wire.
MaxSamples == 2

\* A variant of the running minimum that keeps the last position.
RunningMin_last(positions, mins_) ==
    [i \in DOMAIN mins_ |-> [key |-> mins_[i].key, val |-> Lookup(positions, mins_[i].key)]]

\* {motor: min(positions[motor], min_) for motor, min_ in mins.items()}
RunningMin(positions, mins_) ==
    [i \in DOMAIN mins_ |->
       [key |-> mins_[i].key,
        val |-> IF Lookup(positions, mins_[i].key) < mins_[i].val
                THEN Lookup(positions, mins_[i].key) ELSE mins_[i].val]]

\* {motor: max(positions[motor], max_) for motor, max_ in maxes.items()}
RunningMax(positions, maxes_) ==
    [i \in DOMAIN maxes_ |->
       [key |-> maxes_[i].key,
        val |-> IF Lookup(positions, maxes_[i].key) > maxes_[i].val
                THEN Lookup(positions, maxes_[i].key) ELSE maxes_[i].val]]

\* The display loop reads mins[name] for every name of motors.
DisplayFails(keys, mins_) == \E i \in DOMAIN keys : ~HasKey(mins_, keys[i])

record_ranges_of_motion(marg, display_values) ==
    /\ pc = "idle"
    /\ entry' = Snapshot
    /\ wire' = <<>>
    /\ \E ml \in {MotorList(marg)} :
       LET frame == [NoCall EXCEPT !.op = "record_ranges_of_motion", !.marg = marg,
                                   !.display_values = display_values] IN
       IF ml.err # "none"
       THEN /\ call' = frame
            /\ result' = Result("record_ranges_of_motion", ml.err, ml.msg)
            /\ pc' = "done"
       ELSE /\ call' = [frame EXCEPT !.keys = ml.keys]
            /\ result' = Result("record_ranges_of_motion", "pending", "")
            /\ pc' = "record_start"
    /\ UNCHANGED <<motors, calibration, is_open, packet_timeout, sync_reader, sync_writer>>

\* start_positions = self.sync_read("Present_Position", motors, normalize=False)
record_start_read(comm, base) ==
    /\ pc = "record_start"
    /\ \E r \in {ReadOnce("Present_Position", List(call.keys), comm, base)} :
          /\ wire' = wire \o r.wire
          /\ sync_reader' = r.reader
          /\ IF r.err # "none"
             THEN /\ pc' = "done"
                  /\ result' = Result("record_ranges_of_motion", r.err, r.msg)
                  /\ UNCHANGED call
             ELSE /\ pc' = "record_read"
                  /\ call' = [call EXCEPT !.mins = r.ret, !.maxes = r.ret, !.seen = {r.ret}]
                  /\ UNCHANGED result
    /\ UNCHANGED <<motors, calibration, is_open, packet_timeout, sync_writer, entry>>

\* One sample of the loop, up to the poll of the stop signal; call.seen keeps the
\* samples read so far.
record_read(comm, base) ==
    /\ pc = "record_read"
    /\ \E r \in {ReadOnce("Present_Position", List(call.keys), comm, base)} :
          /\ wire' = IF call.step < MaxSamples THEN wire \o r.wire ELSE wire
          /\ sync_reader' = r.reader
          /\ IF r.err # "none"
             THEN /\ pc' = "done"
                  /\ result' = Result("record_ranges_of_motion", r.err, r.msg)
                  /\ UNCHANGED call
             ELSE /\ call' = [call EXCEPT !.mins = RunningMin(r.ret, @),
                                          !.maxes = RunningMax(r.ret, @),
                                          !.seen = @ \cup {r.ret},
                                          !.step = IF @ < MaxSamples THEN @ + 1 ELSE @]
                  /\ IF call.display_values /\ DisplayFails(call.keys, call.mins)
                     THEN /\ pc' = "done"
                          /\ result' = Result("record_ranges_of_motion", "KeyError", "name")
                     ELSE /\ pc' = "record_poll"
                          /\ UNCHANGED result
    /\ UNCHANGED <<motors, calibration, is_open, packet_timeout, sync_writer, entry>>

\* A variant of the loop that ends after its first sample.
PollStops_always(enter_pressed) == TRUE

\* if enter_pressed(): break
PollStops(enter_pressed) == enter_pressed

\* The poll of the stop signal after a sample, and the return of mins, maxes.
record_poll(enter_pressed) ==
    /\ pc = "record_poll"
    /\ call' = [call EXCEPT !.stop = enter_pressed]
    /\ IF PollStops(enter_pressed)
       THEN /\ pc' = "done"
            /\ result' = [Result("record_ranges_of_motion", "none", "")
                            EXCEPT !.ret = <<call.mins, call.maxes>>]
       ELSE /\ pc' = "record_read"
            /\ UNCHANGED result
    /\ UNCHANGED <<motors, calibration, is_open, packet_timeout, sync_reader, sync_writer,
                   wire, entry>>

(***************************************************************************)
(* scan_port                                                               *)
(***************************************************************************)
\* What the broadcast ping of the scan answers at one baud rate: nothing (None),
\* an empty dict, one motor, two motors.
ScanAnswers ==
    { [comm |-> -1, found |-> <<>>], [comm |-> _comm_success, found |-> <<>>],
      [comm |-> _comm_success, found |-> <<[id |-> 1, val |-> 777]>>],
      [comm |-> _comm_success, found |-> <<[id |-> 1, val |-> 777], [id |-> 2, val |-> 2825]>>] }

\* cls(port, {}) and bus.port_handler.openPort(), whose return value is not looked
\* at; present is the baud rate the port handler starts at.  call.port_open is
\* whether the port of that bus is open: nothing in scan_port closes it.
scan_port(opens, present) ==
    /\ pc = "idle"
    /\ entry' = Snapshot
    /\ wire' = <<>>
    /\ call' = [NoCall EXCEPT !.op = "scan_port", !.port = opens,
                              !.baudrate = present, !.port_open = (opens = "true")]
    /\ IF opens = "raises"
       THEN /\ result' = Result("scan_port", "ConnectionError", "Could not connect to port")
            /\ pc' = "done"
       ELSE /\ result' = Result("scan_port", "pending", "")
            /\ pc' = "scan_port"
    /\ UNCHANGED <<motors, calibration, is_open, packet_timeout, sync_reader, sync_writer>>

\* set_baudrate(baudrate) on a port at present: set_ok is whether the port took the
\* new rate.
set_baudrate(present, baudrate, set_ok) ==
    IF present = baudrate THEN [err |-> "none", msg |-> "", baudrate |-> present]
    ELSE IF ~set_ok
    THEN [err |-> "OSError", msg |-> "Failed to write bus baud rate", baudrate |-> present]
    ELSE [err |-> "none", msg |-> "", baudrate |-> baudrate]

\* A variant of the test of the scan that records every baud rate.
ScanRecords_all(found) == TRUE

\* if ids_models:
ScanRecords(found) == found # <<>>

\* The baud rates the port handler of a new bus can be at: the first and the last
\* of the supported ones.
StartBaudrates == {available_baudrates[1], available_baudrates[Len(available_baudrates)]}

\* One turn of the loop of scan_port: set_baudrate, broadcast_ping, record.
scan_port_baudrate(set_ok, answer) ==
    /\ pc = "scan_port"
    /\ \E b \in {set_baudrate(call.baudrate, available_baudrates[call.step + 1], set_ok)} :
          IF b.err # "none"
          THEN /\ pc' = "done"
               /\ result' = Result("scan_port", b.err, b.msg)
               /\ UNCHANGED <<call, wire>>
          ELSE /\ wire' = Append(wire, [Txn("broadcast_ping", <<>>, 0, 0, answer.found,
                                            answer.comm, _no_error)
                                          EXCEPT !.baudrate = b.baudrate])
               /\ call' = [call EXCEPT !.step = @ + 1, !.baudrate = b.baudrate,
                                       !.acc = IF ScanRecords(answer.found)
                                               THEN Append(@, [key |-> b.baudrate,
                                                               val |-> DictKeys(answer.found)])
                                               ELSE @]
               /\ IF call.step + 1 = Len(available_baudrates)
                  THEN /\ pc' = "done"
                       /\ result' = [Result("scan_port", "none", "")
                                       EXCEPT !.ret = call'.acc]
                  ELSE UNCHANGED <<pc, result>>
    /\ UNCHANGED <<motors, calibration, is_open, packet_timeout, sync_reader, sync_writer, entry>>

(***************************************************************************)
(* The calibration procedures among the other operations                   *)
(***************************************************************************)
ArmMotors ==
    << Motor("a", 1, "sts3215", "RANGE_M100_100"), Motor("b", 2, "sts3250", "RANGE_0_100") >>
ArmCalibration ==
    ("a" :> MotorCalibration(1, 0, 0, 0, 4095)) @@ ("b" :> MotorCalibration(2, 0, 0, 1000, 3000))

WristMotors == << Motor("c", 3, "xl330", "RANGE_0_100") >>
WristCalibration == ("c" :> MotorCalibration(3, 0, 0, 0, 4095))

\* Two motors of models without Drive_Mode, and one motor of a model with it.
ProcedureBuses ==
    { [motors |-> ArmMotors, calibration |-> ArmCalibration],
      [motors |-> WristMotors, calibration |-> WristCalibration] }

InitProcedures == \E bus \in ProcedureBuses : Construct(bus)

\* The motors argument of the procedures: None, something else, a name, an unknown
\* name, the motors in reverse order, one motor by name and by id.
ProcedureMotorsArgs ==
    { NoMotors, [tag |-> "bad", keys |-> <<>>], One(FirstName), One(NameKey("ghost")),
      List(<<LastName, FirstName>>), List(<<FirstName, FirstId>>) }

\* The record write_calibration is given for motor i.
NewCalibration(i) == MotorCalibration(motors[i].id, 0, -5, 10, 4000)

\* The calibration_dict of write_calibration: empty, one record per motor, a record
\* for the first motor and one for an unknown motor.
CalibrationArgs ==
    { <<>>,
      [i \in DOMAIN motors |-> [key |-> NameKey(motors[i].name), val |-> NewCalibration(i)]],
      << [key |-> FirstName, val |-> NewCalibration(1)],
         [key |-> NameKey("ghost"), val |-> MotorCalibration(9, 0, 0, 0, 4095)] >> }

NextProcedures ==
    \/ pc = "idle" /\ \E o \in {"true", "false"} : connect(FALSE, o, "answers", expected_models)
    \/ disconnect
    \/ pc = "idle" /\ \E t \in Timeouts : set_timeout(t)
    \/ pc = "idle" /\ \E n \in BOOLEAN : sync_read("Goal_Position", One(FirstName), n, 0)
    \/ pc = "idle" /\ \E n \in BOOLEAN :
                         sync_write("Goal_Position", Dict(<<Item(FirstName, 50)>>), n, 0)
    \/ pc = "idle" /\ \E n \in BOOLEAN : write("Goal_Position", FirstName, Val(50, 1), n, 0)
    \/ pc = "idle" /\ ping(FirstName, 0, FALSE)
    \/ pc = "idle" /\ \E m \in ProcedureMotorsArgs : reset_calibration(m)
    \/ pc = "idle" /\ \E c \in CalibrationArgs : write_calibration(c)
    \/ pc = "idle" /\ read_calibration
    \/ pc = "idle" /\ \E m \in ProcedureMotorsArgs : set_half_turn_homings(m)
    \/ pc = "idle" /\ \E m \in ProcedureMotorsArgs, d \in BOOLEAN : record_ranges_of_motion(m, d)
    \/ pc = "idle" /\ \E o \in {"true", "false", "raises"}, b \in StartBaudrates : scan_port(o, b)
    \/ pc = "sync_read" /\ \E c \in CommStatuses, b \in ReadBases : sync_read_txRxPacket(c, b)
    \/ pc = "sync_write" /\ \E c \in CommStatuses : sync_write_txPacket(c)
    \/ pc = "write" /\ \E c \in CommStatuses, e \in ErrorCodes : write_writeTxRx(c, e)
    \/ pc = "ping" /\ \E a \in PingAnswers : ping_packet(a.model_number, a.comm, a.error)
    \/ pc = "reset_calibration" /\ \E c \in CommStatuses, e \in ErrorCodes :
                                      reset_calibration_write(c, e)
    \/ pc = "write_calibration" /\ \E c \in CommStatuses, e \in ErrorCodes :
                                      write_calibration_write(c, e)
    \/ pc = "read_calibration" /\ \E c \in CommStatuses, b \in ReadBases :
                                     read_calibration_read(c, b)
    \/ pc = "half_turn_reset" /\ \E c \in CommStatuses, e \in ErrorCodes :
                                    half_turn_reset_write(c, e)
    \/ pc = "half_turn_read" /\ \E c \in CommStatuses, b \in ReadBases : half_turn_read(c, b)
    \/ pc = "half_turn_write" /\ \E c \in CommStatuses, e \in ErrorCodes : half_turn_write(c, e)
    \/ pc = "record_start" /\ \E c \in CommStatuses, b \in ReadBases : record_start_read(c, b)
    \/ pc = "record_read" /\ \E c \in CommStatuses, b \in ReadBases : record_read(c, b)
    \/ pc = "record_poll" /\ \E k \in BOOLEAN : record_poll(k)
    \/ pc = "scan_port" /\ \E k \in BOOLEAN, a \in ScanAnswers : scan_port_baudrate(k, a)
    \/ Return

SpecProcedures == InitProcedures /\ [][NextProcedures]_vars

(***************************************************************************)
(* A recording that goes on until the stop signal                          *)
(***************************************************************************)
NextRecording ==
    \/ pc = "idle" /\ connect(FALSE, "true", "answers", expected_models)
    \/ pc = "idle" /\ \E m \in ProcedureMotorsArgs, d \in BOOLEAN : record_ranges_of_motion(m, d)
    \/ pc = "record_start" /\ \E c \in CommStatuses, b \in ReadBases : record_start_read(c, b)
    \/ pc = "record_read" /\ \E c \in CommStatuses, b \in ReadBases : record_read(c, b)
    \/ pc = "record_poll" /\ \E k \in BOOLEAN : record_poll(k)
    \/ Return

\* The call goes on as long as it has not returned: each read and each poll it has
\* reached is made.
RecordingRuns ==
    /\ WF_vars(\E c \in CommStatuses, b \in ReadBases : record_start_read(c, b))
    /\ WF_vars(\E c \in CommStatuses, b \in ReadBases : record_read(c, b))
    /\ WF_vars(\E k \in BOOLEAN : record_poll(k))

\* The stop signal eventually occurs: a loop that polls again and again sees it.
StopSignalOccurs == SF_vars(record_poll(TRUE))

SpecRecording == InitProcedures /\ [][NextRecording]_vars /\ RecordingRuns /\ StopSignalOccurs

(***************************************************************************)
(* assert_same_address on its own                                          *)
(***************************************************************************)
MaxModels == 3

\* The models of the tables, and one without control table.
ModelNames == DOMAIN model_number_table

\* Every list of at most MaxModels models, the empty one included.
ModelLists == UNION { [1..n -> ModelNames] : n \in 0..MaxModels }

\* Parameters: in every table, in every table with two widths, in one table, in none.
AddressNames == {"Goal_Position", "Torque_Enable", "Homing_Offset", "Lock", "Bogus"}

\* assert_same_address(model_ctrl_table, motor_models, data_name), called on its own.
assert_same_address_call(motor_models, data_name) ==
    /\ pc = "idle"
    /\ entry' = Snapshot
    /\ wire' = <<>>
    /\ call' = [NoCall EXCEPT !.op = "assert_same_address", !.data_name = data_name,
                              !.motor_models = motor_models]
    /\ \E r \in {assert_same_address(motor_models, data_name)} :
          result' = Result("assert_same_address", r.err, r.msg)
    /\ pc' = "done"
    /\ UNCHANGED <<motors, calibration, is_open, packet_timeout, sync_reader, sync_writer>>

NextAddress ==
    \/ pc = "idle" /\ \E l \in ModelLists, n \in AddressNames : assert_same_address_call(l, n)
    \/ Return

SpecAddress == Init /\ [][NextAddress]_vars

(***************************************************************************)
(* The verification of the motors at connection time                       *)
(***************************************************************************)
\* A bus configured with no motors, as scan_port builds it.
NoMotorsBus == [motors |-> <<>>, calibration |-> NoCalibration]

InitVerified == \E bus \in Buses \cup {NoMotorsBus} : Construct(bus)

\* An id no bus is configured with.
StrangerId == 9

\* Every answer of the broadcast ping that maps some of the configured ids and of
\* StrangerId to the model number of a configured motor or to another number.
BroadcastAnswers ==
    UNION { [S -> { model_number_table[motors[i].model] : i \in DOMAIN motors } \cup {1}] :
              S \in SUBSET ({ motors[i].id : i \in DOMAIN motors } \cup {StrangerId}) }

NextVerified ==
    \/ pc = "idle" /\ \E f \in BroadcastAnswers : connect(TRUE, "true", "answers", f)
    \/ disconnect
    \/ Return

SpecVerified == InitVerified /\ [][NextVerified]_vars

(***************************************************************************)
(* _unnormalize on its own                                                 *)
(***************************************************************************)
\* The normalized inputs are the multiples of 1 / GridDen from Over below -100 to
\* Over above 100.
GridDen == 3

\* Every bus of one motor with a supported mode and a calibration with
\* range_min <= range_max.
RangedBuses ==
    { [motors |-> JointMotors(mode), calibration |-> JointCalibration(lo, hi)] :
        mode \in {"RANGE_M100_100", "RANGE_0_100"},
        lo \in -RawLimit..RawLimit, hi \in -RawLimit..RawLimit }
InitRanged == \E bus \in RangedBuses :
                 /\ bus.calibration[bus.motors[1].name].range_min
                      <= bus.calibration[bus.motors[1].name].range_max
                 /\ Construct(bus)

GridSteps == (-(100 + Over) * GridDen)..((100 + Over) * GridDen)

\* self._unnormalize(data_name, {id: k / GridDen}), called on its own; call.step
\* keeps k.
unnormalize_grid(k, rounding) ==
    /\ pc = "idle"
    /\ entry' = Snapshot
    /\ wire' = <<>>
    /\ call' = [NoCall EXCEPT !.op = "_unnormalize", !.data_name = "Goal_Position",
                              !.ids = <<motors[1].id>>, !.step = k,
                              !.payload = <<[id |-> motors[1].id, val |-> Frac(k, GridDen)]>>]
    /\ \E r \in {_unnormalize(<<[id |-> motors[1].id, val |-> Frac(k, GridDen)]>>, rounding)} :
          result' = [Result("_unnormalize", r.err, r.msg) EXCEPT !.ret = r.vals]
    /\ pc' = "done"
    /\ UNCHANGED <<motors, calibration, is_open, packet_timeout, sync_reader, sync_writer>>

NextRanged ==
    \/ pc = "idle" /\ \E k \in GridSteps, r \in Roundings : unnormalize_grid(k, r)
    \/ pc = "idle" /\ \E d \in RawDicts : normalize_call(d)
    \/ Return

SpecRanged == InitRanged /\ [][NextRanged]_vars

(***************************************************************************)
(* is_calibrated on motors that store what is written                      *)
(***************************************************************************)
\* The integer that little-endian bytes hold.
RECURSIVE FromLittleEndian(_)
FromLittleEndian(bytes) ==
    IF bytes = <<>> THEN 0 ELSE Head(bytes) + 256 * FromLittleEndian(Tail(bytes))

\* What the motor id_ holds at addr after the transactions w, when it stores what
\* is written: the data of the last answered write to addr, and held when w has none.
StoredData(w, id_, addr, held) ==
    LET writes == { k \in DOMAIN w : /\ w[k].kind = "write" /\ w[k].ids = <<id_>>
                                     /\ w[k].addr = addr
                                     /\ w[k].comm = _comm_success /\ w[k].error = _no_error }
    IN IF writes = {} THEN held
       ELSE FromLittleEndian(w[CHOOSE k \in writes : \A j \in writes : j <= k].data[1].data)

\* self.sync_read(data_name, normalize=False) of all motors, answered with a success
\* by motors that hold what w wrote.
StoredRead(data_name, w, held) ==
    With(sync_read_entry(data_name, NoMotors), LAMBDA e :
    IF e.err # "none"
    THEN [err |-> e.err, msg |-> e.msg, ret |-> <<>>, reader |-> sync_reader, wire |-> <<>>]
    ELSE [err |-> "none", msg |-> "",
          ret |-> [i \in DOMAIN e.map |->
                     [key |-> e.map[i].val,
                      val |-> _decode_value(StoredData(w, e.map[i].id, e.addr, held),
                                            e.n_bytes)]],
          reader |-> _setup_sync_reader(DictKeys(e.map), e.addr, e.n_bytes),
          wire |-> <<Txn("sync_read", DictKeys(e.map), e.addr, e.n_bytes, <<>>,
                         _comm_success, _no_error)>>])

\* read_calibration() on those motors: the four reads, the default for Drive_Mode,
\* the records.
StoredCalibration(w, held) ==
    LET offsets == StoredRead("Homing_Offset", w, held)
        mins_ == StoredRead("Min_Position_Limit", w, held)
        maxes_ == StoredRead("Max_Position_Limit", w, held)
        drive_modes == StoredRead("Drive_Mode", w, held)
        reads == <<offsets, mins_, maxes_>>
        failed == { k \in 1..3 : reads[k].err # "none" }
        first == CHOOSE k \in failed : \A j \in failed : k <= j
    IN IF failed # {}
       THEN [err |-> reads[first].err, msg |-> reads[first].msg, ret |-> <<>>,
             reader |-> IF first = 1 THEN sync_reader ELSE reads[first - 1].reader,
             wire |-> IF first = 1 THEN <<>>
                      ELSE IF first = 2 THEN offsets.wire ELSE offsets.wire \o mins_.wire]
       ELSE IF drive_modes.err # "none" /\ ~DriveModeDefaulted(drive_modes.err)
       THEN [err |-> drive_modes.err, msg |-> drive_modes.msg, ret |-> <<>>,
             reader |-> maxes_.reader, wire |-> offsets.wire \o mins_.wire \o maxes_.wire]
       ELSE With(BuildCalibration(offsets.ret, mins_.ret, maxes_.ret,
                                  IF drive_modes.err = "none" THEN drive_modes.ret
                                  ELSE ZeroDriveModes), LAMBDA b :
            [err |-> b.err, msg |-> b.msg, ret |-> b.ret,
             reader |-> IF drive_modes.err = "none" THEN drive_modes.reader ELSE maxes_.reader,
             wire |-> offsets.wire \o mins_.wire \o maxes_.wire \o drive_modes.wire])

\* bus.is_calibrated, read by the caller to whom write_calibration or
\* reset_calibration has just returned, on motors that hold what the procedure
\* wrote and held in the registers it did not write:
\* self.calibration == self.read_calibration().
is_calibrated(held) ==
    /\ pc = "done"
    /\ call.op \in {"write_calibration", "reset_calibration"}
    /\ result.err = "none"
    /\ entry' = Snapshot
    /\ call' = [NoCall EXCEPT !.op = "is_calibrated", !.cal = call.cal, !.keys = call.keys]
    /\ \E r \in {StoredCalibration(wire, held)} :
          /\ wire' = r.wire
          /\ sync_reader' = r.reader
          /\ result' = [Result("is_calibrated", r.err, r.msg)
                          EXCEPT !.ret = r.ret,
                                 !.is_calibrated = r.err = "none"
                                                   /\ calibration = AsCalibration(r.ret)]
    /\ pc' = "done"
    /\ UNCHANGED <<motors, calibration, is_open, packet_timeout, sync_writer>>

\* What a register the procedures do not write may hold.
HeldValues == {0, 1}

\* The calibration_dict given to write_calibration: one record per configured
\* motor, with a drive mode and a homing offset.
StoredCalibrationArgs ==
    { [i \in DOMAIN motors |->
         [key |-> NameKey(motors[i].name),
          val |-> MotorCalibration(motors[i].id, dm, ho, 10, 4000)]] :
      dm \in {0, 1}, ho \in {-5, 0} }

NextStored ==
    \/ pc = "idle" /\ connect(FALSE, "true", "answers", expected_models)
    \/ pc = "idle" /\ \E c \in StoredCalibrationArgs : write_calibration(c)
    \/ pc = "idle" /\ reset_calibration(NoMotors)
    \/ pc = "write_calibration" /\ \E c \in CommStatuses, e \in ErrorCodes :
                                      write_calibration_write(c, e)
    \/ pc = "reset_calibration" /\ \E c \in CommStatuses, e \in ErrorCodes :
                                      reset_calibration_write(c, e)
    \/ \E held \in HeldValues : is_calibrated(held)
    \/ Return

SpecStored == InitProcedures /\ [][NextStored]_vars

(***************************************************************************)
(* Properties                                                              *)
(***************************************************************************)
\* A call has ended and control is not yet back with the caller.
Ended(op) == pc = "done" /\ call.op = op

\* The operations that read or write the bus under the retry policy.
RetriedOps == {"sync_read", "sync_write", "write"}

AllFailed == \A i \in DOMAIN wire : ~_is_comm_success(wire[i].comm)

\* C1: with a port that opens and no verification, connect() succeeds exactly on a
\* disconnected bus and leaves it connected, and fails with the already-connected
\* error on a connected bus; disconnect() succeeds exactly on a connected bus and
\* leaves it disconnected, and fails with the not-connected error on a disconnected
\* bus; a failing call leaves the connection state as it was.
C1_ConnectDisconnect ==
    /\ (Ended("connect") /\ call.port = "true" /\ ~call.assert_motors_exist) =>
          /\ (result.err = "none") <=> ~entry.connected
          /\ ~entry.connected => is_open
          /\ entry.connected => result.err = "DeviceAlreadyConnectedError" /\ is_open
    /\ Ended("disconnect") =>
          /\ (result.err = "none") <=> entry.connected
          /\ entry.connected => ~is_open
          /\ ~entry.connected => result.err = "DeviceNotConnectedError" /\ ~is_open

\* A second connect() was refused and left the bus connected.
C1_Witness ==
    /\ Ended("connect") /\ call.port = "true" /\ ~call.assert_motors_exist
    /\ entry.connected /\ result.err = "DeviceAlreadyConnectedError" /\ is_open

\* C2: on a disconnected bus sync_read, sync_write and write end with the
\* not-connected error whatever their arguments, never reach their retry loop, put
\* nothing on the bus and leave the group reader and the group writer as they were.
C2_NotConnectedFirst ==
    /\ (pc \in RetriedOps) => entry.connected
    /\ (pc = "done" /\ call.op \in RetriedOps /\ ~entry.connected) =>
          /\ result.err = "DeviceNotConnectedError"
          /\ wire = <<>>
          /\ sync_reader = entry.sync_reader
          /\ sync_writer = entry.sync_writer

\* A sync_write whose values argument is neither a number nor a dict was refused as
\* not connected.
C2_Witness ==
    /\ Ended("sync_write") /\ ~entry.connected /\ call.varg.tag = "bad"
    /\ result.err = "DeviceNotConnectedError" /\ wire = <<>>

\* C3: a ping of a motor of a disconnected bus ends with the not-connected error and
\* hands no ping to the packet handler.
C3_PingRequiresConnected ==
    (pc # "idle" /\ call.op = "ping" /\ ~entry.connected /\ call.ids # <<>>) =>
        /\ wire = <<>>
        /\ pc = "done"
        /\ result.err = "DeviceNotConnectedError"

\* C4: when every transaction of a sync_read, sync_write or write fails, the call is
\* still trying until it has made 1 + num_retry of them, and then ends with the
\* connectivity error, whose message counts num_retry + 1 tries.
C4_ExhaustedRetries ==
    (call.op \in RetriedOps /\ wire # <<>> /\ AllFailed) =>
        /\ Len(wire) <= 1 + call.num_retry
        /\ (Len(wire) < 1 + call.num_retry) => pc = call.op /\ result.err = "pending"
        /\ (Len(wire) = 1 + call.num_retry) =>
              /\ pc = "done"
              /\ result.err = "ConnectionError"
              /\ result.tries = call.num_retry + 1

\* A sync_write with two retries failed after three transactions.
C4_Witness ==
    /\ Ended("sync_write") /\ call.num_retry = 2 /\ Len(wire) = 3 /\ AllFailed
    /\ result.err = "ConnectionError" /\ result.tries = 3

\* C5: ping, sync_read, sync_write and write make at most 1 + num_retry
\* transactions, each for the whole group of the call; every transaction before the
\* last failed, a call that is still trying has seen failures only, and a call
\* whose last transaction succeeded does not end with the connectivity error.
C5_StopAtFirstSuccess ==
    (call.op \in RetriedOps \cup {"ping"} /\ wire # <<>>) =>
        /\ Len(wire) <= 1 + call.num_retry
        /\ \A i \in DOMAIN wire : wire[i].kind = call.op /\ wire[i].ids = call.ids
        /\ \A i \in 1..(Len(wire) - 1) : ~_is_comm_success(wire[i].comm)
        /\ (pc = call.op) => AllFailed
        /\ (pc = "done" /\ _is_comm_success(wire[Len(wire)].comm)) =>
              result.err # "ConnectionError"

\* A sync_read of two motors with two retries succeeded at its second transaction.
C5_Witness ==
    /\ Ended("sync_read") /\ call.num_retry = 2 /\ Len(call.ids) = 2 /\ Len(wire) = 2
    /\ ~_is_comm_success(wire[1].comm) /\ _is_comm_success(wire[2].comm)
    /\ result.err = "none"

\* C6: when the port does not open, connect() ends with ConnectionError, nothing was
\* put on the bus, the packet timeout is as it was and the bus is not connected.
C6_PortDoesNotOpen ==
    (Ended("connect") /\ ~entry.connected /\ call.port # "true") =>
        /\ result.err = "ConnectionError"
        /\ wire = <<>>
        /\ packet_timeout = entry.packet_timeout
        /\ ~is_open

\* A verifying connect() whose openPort() answered false failed with ConnectionError.
C6_Witness ==
    /\ Ended("connect") /\ ~entry.connected /\ call.port = "false"
    /\ call.assert_motors_exist /\ result.err = "ConnectionError" /\ ~is_open

\* C7: a verifying connect() whose port opened and whose broadcast ping answered a
\* set of motors other than the configured one ends with ConnectionError.
C7_MismatchIsConnectionError ==
    (Ended("connect") /\ ~entry.connected /\ call.assert_motors_exist /\ wire # <<>>
       /\ _is_comm_success(wire[1].comm) /\ wire[1].data # expected_models) =>
        result.err = "ConnectionError"

\* The ids a group call names, when they all resolve.
Participants ==
    IF call.op = "sync_read" THEN With(id_key_map(call.marg), LAMBDA km :
                                      [err |-> km.err, ids |-> DictKeys(km.map)])
    ELSE With(ids_values_of(call.varg), LAMBDA iv : [err |-> iv.err, ids |-> DictKeys(iv.vals)])

\* Two of the motors in id_list have models that put data_name at different
\* addresses or give it different widths.
Disagree(id_list, data_name) ==
    \E i, j \in DOMAIN id_list :
        With(get_address(MotorWithId(id_list[i]).model, data_name), LAMBDA x :
        With(get_address(MotorWithId(id_list[j]).model, data_name), LAMBDA y :
             x.err = "none" /\ y.err = "none" /\ <<x.addr, x.n_bytes>> # <<y.addr, y.n_bytes>>))

CrossModelError == result.err = "NotImplementedError" /\ result.msg \in {"different address", "different bytes"}

\* C8: a sync_read or sync_write on a connected bus ends with the cross-model error
\* only if two of the motors it names disagree on the parameter, and then nothing
\* was put on the bus and the group reader and writer are as they were; a raw group
\* call whose motors all have the parameter and disagree on it ends with that error.
C8_CrossModelExactly ==
    (pc = "done" /\ call.op \in {"sync_read", "sync_write"} /\ entry.connected
       /\ Participants.err = "none") =>
        /\ CrossModelError => /\ Disagree(Participants.ids, call.data_name)
                               /\ wire = <<>>
                               /\ sync_reader = entry.sync_reader
                               /\ sync_writer = entry.sync_writer
        /\ ((call.op = "sync_read" \/ ~call.normalize)
              /\ Disagree(Participants.ids, call.data_name)
              /\ \A i \in DOMAIN Participants.ids :
                    get_address(MotorWithId(Participants.ids[i]).model, call.data_name).err = "none")
             => CrossModelError

\* C9: no call is ever made on a bus that has two motors with the same id.
C9_NoDuplicateIds ==
    (pc # "idle") => Cardinality({ motors[i].id : i \in DOMAIN motors }) = Len(motors)

\* C10: a write transaction that came back with communication success and a device
\* error is the last of its call, which ends with RuntimeError.
C10_DeviceErrorNotRetried ==
    (call.op = "write") =>
        \A i \in DOMAIN wire :
            (_is_comm_success(wire[i].comm) /\ _is_error(wire[i].error)) =>
                i = Len(wire) /\ pc = "done" /\ result.err = "RuntimeError"

\* A write with two retries left ended with RuntimeError after one transaction.
C10_Witness ==
    /\ Ended("write") /\ call.num_retry = 2 /\ Len(wire) = 1
    /\ _is_comm_success(wire[1].comm) /\ _is_error(wire[1].error)
    /\ result.err = "RuntimeError"

\* The last transaction of the call.
Last == wire[Len(wire)]

\* C11: a write that reached the bus ends with ConnectionError exactly when its last
\* transaction failed to communicate (whatever the error code), with RuntimeError
\* exactly when that transaction communicated and carried a device error, and
\* returns exactly when it communicated without error.
C11_WriteOutcome ==
    (Ended("write") /\ wire # <<>>) =>
        /\ (result.err = "ConnectionError") <=> ~_is_comm_success(Last.comm)
        /\ (result.err = "RuntimeError") <=> (_is_comm_success(Last.comm) /\ _is_error(Last.error))
        /\ (result.err = "none") <=> (_is_comm_success(Last.comm) /\ ~_is_error(Last.error))

\* A write whose last transaction failed to communicate and carried an error code
\* ended with ConnectionError.
C11_Witness ==
    /\ Ended("write") /\ Len(wire) = 2 /\ ~_is_comm_success(Last.comm) /\ _is_error(Last.error)
    /\ result.err = "ConnectionError"

\* C12: a ping that reached the packet handler returns the model number of its last
\* answer exactly when that answer communicated without device error; otherwise it
\* returns None without raising when raise_on_error is false, and when it is true
\* raises ConnectionError on a communication failure and RuntimeError on a device
\* error.
C12_PingOutcome ==
    (Ended("ping") /\ wire # <<>>) =>
        LET ok == _is_comm_success(Last.comm) /\ ~_is_error(Last.error) IN
        /\ ok => result.err = "none" /\ result.model_number = Last.data[1]
        /\ ~ok => result.model_number = -1
        /\ (~ok /\ ~call.raise_on_error) => result.err = "none"
        /\ (call.raise_on_error /\ ~_is_comm_success(Last.comm)) => result.err = "ConnectionError"
        /\ (call.raise_on_error /\ _is_comm_success(Last.comm) /\ _is_error(Last.error)) =>
              result.err = "RuntimeError"

\* A lenient ping whose answer carried a device error returned None.
C12_Witness ==
    /\ Ended("ping") /\ ~call.raise_on_error /\ wire # <<>>
    /\ _is_comm_success(Last.comm) /\ _is_error(Last.error)
    /\ result.err = "none" /\ result.model_number = -1

\* C13: a sync_read that reached the bus returns only when its last transaction
\* communicated, and then with one value for each motor of the group; when that
\* transaction failed it raises ConnectionError and returns no value.  A sync_write
\* that reached the bus returns when its last transaction communicated and raises
\* ConnectionError otherwise.
C13_NoPartialSuccess ==
    /\ (Ended("sync_read") /\ wire # <<>>) =>
          /\ (result.err = "none") => /\ _is_comm_success(Last.comm)
                                       /\ Len(result.ret) = Len(call.ids)
                                       /\ { result.ret[i].key : i \in DOMAIN result.ret }
                                            = { call.keys[i] : i \in DOMAIN call.keys }
          /\ (result.err # "none") => result.ret = <<>>
          /\ ~_is_comm_success(Last.comm) => result.err = "ConnectionError"
    /\ (Ended("sync_write") /\ wire # <<>>) =>
          /\ result.err \in {"none", "ConnectionError"}
          /\ (result.err = "none") <=> _is_comm_success(Last.comm)

\* A sync_read of two motors whose only transaction failed raised ConnectionError and
\* returned nothing.
C13_Witness ==
    /\ Ended("sync_read") /\ Len(call.ids) = 2 /\ Len(wire) = 1
    /\ ~_is_comm_success(Last.comm) /\ result.err = "ConnectionError" /\ result.ret = <<>>

\* The identifiers the caller of sync_read supplied.
Supplied ==
    IF call.marg.tag = "none" THEN { NameKey(motors[i].name) : i \in DOMAIN motors }
    ELSE { call.marg.keys[i] : i \in DOMAIN call.marg.keys }

\* C14: the keys of the mapping a sync_read returns are the identifiers its caller
\* supplied: every configured name for motors=None, else the name or id, or every
\* element of the list, as given.
C14_KeysAsSupplied ==
    (Ended("sync_read") /\ result.err = "none") =>
        { result.ret[i].key : i \in DOMAIN result.ret } = Supplied

\* C15: sync_write takes a scalar, int or float, or a dict: it does not refuse a
\* scalar as being of the wrong type; the group write of a scalar has one payload
\* for each configured id, all of the raw value given when it is sent as given; the
\* group write of a dict has a payload for exactly the motors the dict names.
C15_ScalarOrMapping ==
    /\ (Ended("sync_write") /\ entry.connected /\ call.varg.tag \in {"int", "float"}) =>
          result.err # "TypeError"
    /\ (call.op = "sync_write" /\ wire # <<>>) =>
          /\ { Last.data[i].id : i \in DOMAIN Last.data }
               = IF call.varg.tag = "dict"
                 THEN { Participants.ids[i] : i \in DOMAIN Participants.ids }
                 ELSE { motors[i].id : i \in DOMAIN motors }
          /\ (call.varg.tag # "dict" /\ ~call.normalize) =>
                \A i \in DOMAIN call.payload : call.payload[i].val = call.varg.v

\* The motor a write names, or the motors a sync_write names, all resolve.
Resolves ==
    IF call.op = "write" THEN _get_motor_id(call.marg.keys[1]).err = "none"
    ELSE Participants.err = "none" /\ Participants.ids # <<>>

\* The call is in its retry loop or has been through it.
ReachedBus == pc = call.op \/ wire # <<>>

\* C16: a sync_write or write of a normalization-required parameter with
\* normalize=True sends the unnormalized value when the motor has a calibration, and
\* on a bus without calibration sends the value as given instead of failing.
C16_UnnormalizeIfCalibrated ==
    (call.op \in {"sync_write", "write"} /\ pc # "idle" /\ entry.connected /\ call.normalize
       /\ call.data_name \in normalization_required /\ Resolves) =>
        /\ (DOMAIN calibration = {}) =>
              /\ ReachedBus
              /\ call.op = "write" => call.payload[1].data
                                        = _split_int_to_bytes(call.varg.v.num, call.n_bytes).data
        /\ (call.op = "write" /\ DOMAIN calibration # {} /\ ReachedBus) =>
              call.payload[1].data
                = _split_int_to_bytes(
                     _encode_value(UnnormalizeOne(call.ids[1], call.varg.v, "exact").val.num, call.n_bytes),
                     call.n_bytes).data

\* The call of C17: sync_write("Goal_Position", {"gripper": 50}) with normalize=True on
\* the connected bus of the one motor gripper with its calibration 0..4095.
GripperHalf ==
    /\ call.op = "sync_write" /\ pc # "idle" /\ entry.connected
    /\ motors = GripperMotors /\ calibration = GripperCalibration
    /\ call.data_name = "Goal_Position" /\ call.normalize
    /\ call.varg = Dict(<<Item(NameKey("gripper"), 50)>>)

\* C17: sync_write("Goal_Position", {"gripper": 50}) on the calibrated gripper bus
\* unnormalizes 50 to a raw value within 1 tick of 2048 and sends group writes at
\* Goal_Position's address and width of 2 bytes whose only payload is, for id 6, the
\* little-endian split of that raw value; without retries it sends exactly one.
C17_EndToEnd ==
    GripperHalf =>
        /\ ReachedBus
        /\ call.ids = <<6>>
        /\ call.payload[1].val.num \in 2047..2049
        /\ call.addr = model_ctrl_table["sts3215"]["Goal_Position"][1]
        /\ call.n_bytes = 2
        /\ \A i \in DOMAIN wire :
              /\ wire[i].kind = "sync_write"
              /\ wire[i].addr = call.addr /\ wire[i].n_bytes = 2
              /\ wire[i].data = <<[id |-> 6,
                                   data |-> <<call.payload[1].val.num % 256,
                                              call.payload[1].val.num \div 256>>]>>
        /\ (pc = "done" /\ call.num_retry = 0) => Len(wire) = 1

C17_Witness ==
    /\ GripperHalf /\ pc = "done" /\ call.num_retry = 0 /\ result.err = "none"
    /\ wire = <<Txn("sync_write", <<6>>, 42, 2, <<[id |-> 6, data |-> <<255, 7>>]>>,
                    _comm_success, _no_error)>>

\* _normalize has returned for motor a of the three-motor bus alone: range 0..4095,
\* mode RANGE_M100_100.
NormalizedA ==
    pc = "done" /\ call.op = "_normalize" /\ motors = MixedMotors /\ call.ids = <<1>>

\* C18: for range 0..4095 and mode RANGE_M100_100, _normalize maps 0 to -100, 4095 to
\* 100, 2048 to within half a tick of 0, every raw value below 0 to what it maps 0
\* to and every raw value above 4095 to what it maps 4095 to, and its result lies in
\* [-100, 100].
C18_NormalizeM100 ==
    NormalizedA =>
        /\ result.err = "none" /\ Len(result.ret) = 1
        /\ call.payload[1].val.num <= 0 => result.ret[1].val = Val(-100, 1)
        /\ call.payload[1].val.num >= 4095 => result.ret[1].val = Val(100, 1)
        /\ call.payload[1].val.num = 2048 =>
              Abs(result.ret[1].val.num) * 4095 <= 100 * result.ret[1].val.den
        /\ -100 * result.ret[1].val.den <= result.ret[1].val.num
        /\ result.ret[1].val.num <= 100 * result.ret[1].val.den

C18_Witness ==
    /\ NormalizedA /\ call.payload[1].val.num = 4095 + Over
    /\ result.ret = <<[id |-> 1, val |-> Val(100, 1)]>>

\* _unnormalize has returned for what _normalize made of one raw value inside the
\* range of its motor.
RoundTripped ==
    /\ pc = "done" /\ call.op = "_unnormalize" /\ Len(call.payload) = 1
    /\ call.payload[1].val.num >= calibration[_id_to_name(call.ids[1]).name].range_min
    /\ call.payload[1].val.num <= calibration[_id_to_name(call.ids[1]).name].range_max

\* C19 as stated: _unnormalize(_normalize(x)) is x or x - 1.
C19_RoundTripNeverAbove ==
    RoundTripped =>
        /\ result.err = "none" /\ Len(result.ret) = 1
        /\ result.ret[1].val.num \in {call.payload[1].val.num - 1, call.payload[1].val.num}

\* C19: for every calibration with range_min < range_max, both supported modes and
\* every raw x inside the range, _unnormalize(_normalize(x)) is x or the integer
\* next to x towards zero: x or x - 1 for x > 0, x or x + 1 for x < 0, 0 for 0.
C19_RoundTripTowardsZero ==
    RoundTripped =>
        /\ result.err = "none" /\ Len(result.ret) = 1
        /\ Abs(result.ret[1].val.num - call.payload[1].val.num) <= 1
        /\ Abs(result.ret[1].val.num) <= Abs(call.payload[1].val.num)
        /\ result.ret[1].val.num * call.payload[1].val.num >= 0

C19_Witness ==
    /\ RoundTripped /\ motors = JointMotors("RANGE_M100_100")
    /\ calibration = JointCalibration(-6, 6)
    /\ call.payload[1].val.num = 2 /\ result.ret[1].val.num = 1

\* The ids a call names, when they all resolve.
Targets ==
    IF call.op = "write"
    THEN With(_get_motor_id(call.marg.keys[1]), LAMBDA r : [err |-> r.err, ids |-> <<r.id>>])
    ELSE Participants

\* The call names a motor whose norm mode is DEGREE or VELOCITY.
UnsupportedTarget ==
    /\ Targets.err = "none"
    /\ \E i \in DOMAIN Targets.ids :
          MotorWithId(Targets.ids[i]).norm_mode \in {"DEGREE", "VELOCITY"}

\* C20: on a connected bus, a call with normalize=True for a normalization-required
\* parameter that names a motor of mode DEGREE or VELOCITY fails: a sync_write or a
\* write with the not-implemented error before anything is sent, a sync_read
\* without returning any value, with the not-implemented error once the read went
\* through.
C20_UnsupportedModes ==
    (pc # "idle" /\ entry.connected /\ call.op \in {"sync_read", "sync_write", "write"}
       /\ call.normalize /\ call.data_name \in normalization_required /\ UnsupportedTarget) =>
        /\ call.op \in {"sync_write", "write"} =>
              /\ pc = "done" /\ wire = <<>> /\ result.ret = <<>>
              /\ result.err = "NotImplementedError" /\ result.msg = "norm_mode"
              /\ sync_writer = entry.sync_writer
        /\ (call.op = "sync_read" /\ pc = "done") =>
              /\ result.err # "none" /\ result.ret = <<>>
              /\ (wire # <<>> /\ _is_comm_success(Last.comm)) =>
                    result.err = "NotImplementedError" /\ result.msg = "norm_mode"

C20_Witness ==
    /\ Ended("sync_read") /\ entry.connected /\ call.normalize /\ UnsupportedTarget
    /\ call.marg = One(NameKey("c")) /\ wire # <<>> /\ _is_comm_success(Last.comm)
    /\ result.err = "NotImplementedError" /\ result.msg = "norm_mode"

\* The call names motors of the bus, and the model of one of them has no control
\* table or no entry for the parameter.
AddressNotFound ==
    /\ Targets.err = "none" /\ Targets.ids # <<>>
    /\ \A i \in DOMAIN Targets.ids : HasId(Targets.ids[i])
    /\ \E i \in DOMAIN Targets.ids :
          \/ MotorWithId(Targets.ids[i]).model \notin DOMAIN model_ctrl_table
          \/ call.data_name \notin DOMAIN model_ctrl_table[MotorWithId(Targets.ids[i]).model]

\* C21: on a connected bus, a sync_read, sync_write or write whose parameter is
\* missing from the control table of a target's model, or whose target's model
\* has no control table, ends with the not-found error (a KeyError) without any
\* transaction, whatever its retry count.
C21_NotFoundNeverRetried ==
    (pc # "idle" /\ entry.connected /\ call.op \in RetriedOps /\ AddressNotFound) =>
        /\ pc = "done" /\ wire = <<>>
        /\ result.err = "KeyError"
        /\ result.msg \in {"control table not found", "address not found"}

C21_Witness ==
    /\ Ended("write") /\ entry.connected /\ AddressNotFound /\ call.num_retry = MaxRetry
    /\ motors = UnregisteredMotors /\ wire = <<>>
    /\ result.err = "KeyError" /\ result.msg = "control table not found"

\* C30: a packet timeout the caller set with set_timeout stays the transport's
\* packet timeout through every operation other than set_timeout, connect() and
\* disconnect() included.
C30_TimeoutPersists ==
    (pc # "idle" /\ call.op # "set_timeout" /\ entry.packet_timeout \in Timeouts) =>
        packet_timeout = entry.packet_timeout

\* The motor a key of a motors argument names.
KeyMotor(k) == IF k.kind = "name" THEN MotorNamed(k.name) ELSE MotorWithId(k.id)

\* Whether the transaction t answered with a success and no device error.
Answered(t) == t.comm = _comm_success /\ t.error = _no_error

\* Whether t is the single-motor write of the raw value, encoded, to register of the
\* motor m.
IsRawWrite(t, m, register, value) ==
    /\ t.kind = "write"
    /\ t.ids = <<m.id>>
    /\ t.addr = model_ctrl_table[m.model][register][1]
    /\ t.n_bytes = model_ctrl_table[m.model][register][2]
    /\ t.data = <<[id |-> m.id,
                   data |-> LittleEndian(_encode_value(value, model_ctrl_table[m.model][register][2]),
                                         model_ctrl_table[m.model][register][2])]>>

\* What transaction number k of a reset over keys must be.
IsResetWrite(t, keys, k) ==
    With(KeyMotor(keys[((k - 1) \div 3) + 1]), LAMBDA m :
      IsRawWrite(t, m, CalibrationRegisters[((k - 1) % 3) + 1],
                 IF (k - 1) % 3 = 2 THEN model_resolution_table[m.model] - 1 ELSE 0))

C22_Aborted ==
    /\ pc = "done" /\ call.op = "reset_calibration" /\ result.err = "ConnectionError"
    /\ call.marg.tag = "none" /\ Len(motors) = 2 /\ Len(wire) = 2

\* Whether t is the group read of the raw Present_Position of the motors keys.
IsPositionRead(t, keys) ==
    /\ t.kind = "sync_read"
    /\ t.ids = [i \in DOMAIN keys |-> KeyMotor(keys[i]).id]
    /\ t.addr = model_ctrl_table[KeyMotor(keys[1]).model]["Present_Position"][1]
    /\ t.n_bytes = model_ctrl_table[KeyMotor(keys[1]).model]["Present_Position"][2]

\* C23: set_half_turn_homings performs its steps in strict order: the three reset
\* writes of every selected motor, then the raw read of Present_Position, then one
\* write of Homing_Offset per motor with the offset computed from the position that
\* read returned; a step that fails is the last transaction of the call.
C23_HalfTurnOrder ==
    (pc # "idle" /\ call.op = "set_half_turn_homings") =>
        /\ Len(wire) <= 4 * Len(call.keys) + 1
        /\ \A k \in DOMAIN wire :
              IF k <= 3 * Len(call.keys) THEN IsResetWrite(wire[k], call.keys, k)
              ELSE IF k = 3 * Len(call.keys) + 1 THEN IsPositionRead(wire[k], call.keys)
              ELSE /\ HasKey(call.mins, call.keys[k - 3 * Len(call.keys) - 1])
                   /\ IsRawWrite(wire[k], KeyMotor(call.keys[k - 3 * Len(call.keys) - 1]),
                                 "Homing_Offset",
                                 Lookup(_get_half_turn_homings(call.mins).ret,
                                        call.keys[k - 3 * Len(call.keys) - 1]))
        /\ \A k \in DOMAIN wire : k < Len(wire) => Answered(wire[k])
        /\ (wire # <<>> /\ ~Answered(wire[Len(wire)])) =>
              pc = "done" /\ result.err \notin {"none", "pending"}
        /\ (pc = "done" /\ result.err = "none") =>
              /\ Len(wire) = 4 * Len(call.keys) + 1 /\ call.keys # <<>>
              /\ Answered(wire[Len(wire)])
              /\ result.ret = _get_half_turn_homings(call.mins).ret

\* Half-turn homings of the two motors of a bus: six reset writes, the read, two
\* offsets written.
C23_Witness ==
    /\ pc = "done" /\ call.op = "set_half_turn_homings" /\ result.err = "none"
    /\ Len(motors) = 2 /\ Len(wire) = 9

\* The read failed after the reset: no offset was written.
C23_ReadFailed ==
    /\ pc = "done" /\ call.op = "set_half_turn_homings" /\ result.err = "ConnectionError"
    /\ Len(motors) = 2 /\ Len(wire) = 7 /\ wire[7].kind = "sync_read"

MinOf(S) == CHOOSE x \in S : \A y \in S : x <= y
MaxOf(S) == CHOOSE x \in S : \A y \in S : x >= y

\* A recording that has its start positions: between two samples, or returned.
Recording ==
    /\ call.op = "record_ranges_of_motion"
    /\ pc \in {"record_read", "record_poll"} \/ (pc = "done" /\ result.err = "none")

\* Whether mins and maxes hold, for the requested motor k, the least and the greatest
\* of the positions read for it so far.
RangeOf(k) ==
    /\ HasKey(call.mins, k) /\ HasKey(call.maxes, k)
    /\ \A s \in call.seen : HasKey(s, k)
    /\ Lookup(call.mins, k) = MinOf({ Lookup(s, k) : s \in call.seen })
    /\ Lookup(call.maxes, k) = MaxOf({ Lookup(s, k) : s \in call.seen })
    /\ Lookup(call.mins, k) <= Lookup(call.maxes, k)

\* C24: in record_ranges_of_motion, after every sample and at return, mins[m] and
\* maxes[m] are the minimum and the maximum of the raw positions read so far for
\* every requested motor m, and the maps have exactly the requested motors as keys.
C24_RunningRanges ==
    Recording =>
        /\ \A i \in DOMAIN call.keys : RangeOf(call.keys[i])
        /\ { call.mins[i].key : i \in DOMAIN call.mins } =
              { call.keys[i] : i \in DOMAIN call.keys }
        /\ { call.maxes[i].key : i \in DOMAIN call.maxes } =
              { call.keys[i] : i \in DOMAIN call.keys }
        /\ pc = "done" => result.ret = <<call.mins, call.maxes>>

\* The same for requests that name every motor once.
C24_DistinctMotors ==
    (/\ Recording
     /\ \A i, j \in DOMAIN call.keys :
           KeyMotor(call.keys[i]) = KeyMotor(call.keys[j]) => i = j)
        => C24_RunningRanges

\* Across the samples of a recording no minimum increases and no maximum decreases.
C24_Monotonic ==
    [][(pc = "record_read" /\ pc' = "record_poll") =>
          /\ \A i \in DOMAIN call.mins : call.mins'[i].val <= call.mins[i].val
          /\ \A i \in DOMAIN call.maxes : call.maxes'[i].val >= call.maxes[i].val]_vars

\* A recording of both motors that returned after two samples with a range that is
\* not a point.
C24_TwoSamples ==
    /\ pc = "done" /\ call.op = "record_ranges_of_motion" /\ result.err = "none"
    /\ call.step = 2 /\ Len(call.keys) = 2
    /\ Lookup(call.mins, call.keys[1]) < Lookup(call.maxes, call.keys[1])

\* The display of a recording that names one motor twice fails.
C24_DisplayFails ==
    /\ pc = "done" /\ call.op = "record_ranges_of_motion" /\ result.err = "KeyError"
    /\ call.marg = List(<<FirstName, FirstId>>) /\ call.display_values /\ Len(wire) = 2

\* C25: record_ranges_of_motion never returns normally before the stop signal has
\* been observed, polls the signal once after each sample (so at least one sample
\* follows the initial read), returns right after the first poll that observes it
\* without sampling again, and terminates when the signal eventually occurs.
C25_StopsOnSignal ==
    /\ []((pc = "done" /\ call.op = "record_ranges_of_motion" /\ result.err = "none") =>
             /\ call.stop
             /\ call.step >= 1
             /\ Len(wire) = call.step + 1)
    /\ [][/\ (pc = "record_read" /\ pc' # "done") => (pc' = "record_poll" /\ ~call'.stop)
          /\ (pc = "record_poll" /\ call'.stop) => (pc' = "done" /\ wire' = wire)
          /\ (pc = "record_poll" /\ ~call'.stop) => pc' = "record_read"
          /\ pc = "record_start" => pc' \in {"record_read", "done"}]_vars
    /\ ((call.op = "record_ranges_of_motion" /\ pc \in {"record_start", "record_read", "record_poll"})
           ~> pc = "done")

\* A recording that saw the stop signal at the poll after its second sample.
C25_Witness ==
    /\ pc = "done" /\ call.op = "record_ranges_of_motion" /\ result.err = "none"
    /\ call.stop /\ call.step = 2 /\ Len(wire) = 3

\* What transaction number k of write_calibration(cal) must be.
IsCalibrationWrite(t, cal, k) ==
    With(cal[((k - 1) \div 3) + 1], LAMBDA item :
      IsRawWrite(t, KeyMotor(item.key), CalibrationRegisters[((k - 1) % 3) + 1],
                 IF (k - 1) % 3 = 0 THEN item.val.homing_offset
                 ELSE IF (k - 1) % 3 = 1 THEN item.val.range_min
                 ELSE item.val.range_max))

\* C26: write_calibration(c) writes Homing_Offset, Min_Position_Limit (range_min) and
\* Max_Position_Limit (range_max) for every motor in c; the bus's calibration is c
\* once all of these writes succeeded, and until then, and after a write that
\* failed, which is the last one, it is the calibration the bus had.
C26_AdoptsOnSuccess ==
    (pc # "idle" /\ call.op = "write_calibration") =>
        /\ Len(wire) <= 3 * Len(call.cal)
        /\ \A k \in DOMAIN wire : IsCalibrationWrite(wire[k], call.cal, k)
        /\ \A k \in DOMAIN wire : k < Len(wire) => Answered(wire[k])
        /\ (wire # <<>> /\ ~Answered(wire[Len(wire)])) =>
              pc = "done" /\ result.err \notin {"none", "pending"}
        /\ IF pc = "done" /\ result.err = "none"
           THEN /\ Len(wire) = 3 * Len(call.cal)
                /\ wire # <<>> => Answered(wire[Len(wire)])
                /\ calibration = AsCalibration(call.cal)
           ELSE calibration = entry.calibration

\* A calibration of two motors adopted after its six writes.
C26_Witness ==
    /\ pc = "done" /\ call.op = "write_calibration" /\ result.err = "none"
    /\ Len(call.cal) = 2 /\ Len(wire) = 6
    /\ calibration = AsCalibration(call.cal) /\ calibration # entry.calibration

\* A calibration whose fifth write failed is not adopted.
C26_NotAdopted ==
    /\ pc = "done" /\ call.op = "write_calibration" /\ result.err = "RuntimeError"
    /\ Len(call.cal) = 2 /\ Len(wire) = 5
    /\ calibration = entry.calibration /\ calibration # AsCalibration(call.cal)

\* C27: the bus's calibration map is mutated only through write_calibration and
\* reset_calibration: a step of any other operation, and a step of a call that
\* fails, leaves it as it was.
C27_CalibrationFrame ==
    [][calibration' # calibration =>
          /\ call'.op \in {"write_calibration", "reset_calibration"}
          /\ pc' = "done" /\ result'.err = "none"]_vars

\* Of the two, reset_calibration leaves the calibration map alone as well.
C27_OnlyWriteCalibration ==
    (pc # "idle" /\ call.op # "write_calibration") => calibration = entry.calibration

\* A recording that returned on a bus that had adopted another calibration before.
C27_Witness ==
    /\ pc = "done" /\ call.op = "record_ranges_of_motion" /\ result.err = "none"
    /\ Len(motors) = 2 /\ calibration = entry.calibration
    /\ calibration = AsCalibration([i \in DOMAIN motors |->
                                      [key |-> NameKey(motors[i].name), val |-> NewCalibration(i)]])

\* Whether every model on the bus has Drive_Mode in its control table.
DriveModePresent ==
    \A i \in DOMAIN motors : "Drive_Mode" \in DOMAIN model_ctrl_table[motors[i].model]

\* Whether t is the group read of register on every motor of the bus.
IsRegisterRead(t, register) ==
    /\ t.kind = "sync_read"
    /\ t.ids = [i \in DOMAIN motors |-> motors[i].id]
    /\ t.addr = model_ctrl_table[motors[1].model][register][1]
    /\ t.n_bytes = model_ctrl_table[motors[1].model][register][2]

\* The record read_calibration must return for motor i when its reads returned acc.
RecordRead(i, acc) ==
    [key |-> NameKey(motors[i].name),
     val |-> MotorCalibration(motors[i].id,
                              IF DriveModePresent THEN Lookup(acc[4], NameKey(motors[i].name))
                              ELSE 0,
                              Lookup(acc[1], NameKey(motors[i].name)),
                              Lookup(acc[2], NameKey(motors[i].name)),
                              Lookup(acc[3], NameKey(motors[i].name)))]

\* C28: read_calibration returns one record per configured motor with the motor's id
\* and the raw Homing_Offset, Min_Position_Limit and Max_Position_Limit read from
\* it; drive_mode is the value read when Drive_Mode is in the control table, and 0
\* for every motor, at the cost of no transaction and no failure, when it is not;
\* the bus's calibration is left as it was.
C28_ReadCalibration ==
    (pc # "idle" /\ call.op = "read_calibration") =>
        /\ calibration = entry.calibration
        /\ Len(wire) <= (IF DriveModePresent THEN 4 ELSE 3)
        /\ \A k \in DOMAIN wire : IsRegisterRead(wire[k], ReadCalibrationRegisters[k])
        /\ \A k \in DOMAIN wire : k < Len(wire) => Answered(wire[k])
        /\ (pc = "done" /\ wire # <<>> /\ Answered(wire[Len(wire)])) =>
              /\ Len(wire) = (IF DriveModePresent THEN 4 ELSE 3)
              /\ result.err = "none"
              /\ result.ret = [i \in DOMAIN motors |-> RecordRead(i, call.acc)]
        /\ (pc = "done" /\ result.err = "none") => (wire # <<>> /\ Answered(wire[Len(wire)]))

\* The records of two motors of models without Drive_Mode, read in three
\* transactions, with a range that is not empty.
C28_Witness ==
    /\ pc = "done" /\ call.op = "read_calibration" /\ result.err = "none"
    /\ ~DriveModePresent /\ Len(motors) = 2 /\ Len(wire) = 3 /\ Len(result.ret) = 2
    /\ result.ret[1].val.drive_mode = 0
    /\ result.ret[1].val.range_min < result.ret[1].val.range_max

\* The record of a motor whose model has Drive_Mode, read in four transactions.
C28_DriveModeRead ==
    /\ pc = "done" /\ call.op = "read_calibration" /\ result.err = "none"
    /\ DriveModePresent /\ Len(wire) = 4 /\ result.ret[1].val.drive_mode # 0

\* Whether something answered the broadcast ping x.
Responded(x) == x.val # <<>>

\* The baud rates of the pings made, each with the ids that answered there, less those
\* where nothing answered.
ScanExpected ==
    SelectSeq([k \in DOMAIN wire |->
                 [key |-> available_baudrates[k],
                  val |-> [i \in DOMAIN wire[k].data |-> wire[k].data[i].id]]],
              Responded)

\* C29: scan_port tries every supported baud rate once, in the listed order, with one
\* broadcast ping at each after that baud rate was set; its result maps the baud
\* rates at which at least one id responded to the ids that responded there, and
\* has no other baud rate.
C29_ScanPort ==
    (pc # "idle" /\ call.op = "scan_port") =>
        /\ Len(wire) <= Len(available_baudrates)
        /\ \A k \in DOMAIN wire :
              wire[k].kind = "broadcast_ping" /\ wire[k].baudrate = available_baudrates[k]
        /\ call.acc = ScanExpected
        /\ (pc = "done" /\ result.err = "none") =>
              /\ Len(wire) = Len(available_baudrates)
              /\ result.ret = ScanExpected
        /\ (pc = "done" /\ result.err # "none") => result.err \in {"ConnectionError", "OSError"}

\* A scan that found motors at the first and at the last baud rate, none at the second.
C29_Witness ==
    /\ pc = "done" /\ call.op = "scan_port" /\ result.err = "none"
    /\ Len(wire) = 3 /\ wire[2].data = <<>>
    /\ Len(result.ret) = 2
    /\ result.ret[1].key = available_baudrates[1] /\ result.ret[1].val = <<1, 2>>
    /\ result.ret[2].key = available_baudrates[3] /\ result.ret[2].val = <<1>>

\* Whether the model has data_name in its control table.
HasAddress(model, data_name) ==
    model \in DOMAIN model_ctrl_table /\ data_name \in DOMAIN model_ctrl_table[model]

\* The (address, width) pairs of the parameter of the call across its models.
AddressPairs ==
    { model_ctrl_table[call.motor_models[i]][call.data_name] : i \in DOMAIN call.motor_models }

\* What the claim of C31 asks of a call of assert_same_address that ended.
AddressOutcome ==
    IF \E i \in DOMAIN call.motor_models : ~HasAddress(call.motor_models[i], call.data_name)
    THEN result.err = "KeyError"
    ELSE IF Cardinality(AddressPairs) > 1 THEN result.err = "NotImplementedError"
    ELSE result.err = "none"

\* C31: assert_same_address(models, name) raises the cross-model incompatibility
\* error exactly when the (address, width) pairs of name across the models have more
\* than one distinct value, succeeds when there is at most one (no model at all
\* included), and propagates the not-found error when a model lacks name.
C31_CrossModelExactly ==
    (pc = "done" /\ call.op = "assert_same_address") => AddressOutcome

\* The same for lists of at least one model.
C31_SomeModel ==
    (pc = "done" /\ call.op = "assert_same_address" /\ call.motor_models # <<>>)
        => AddressOutcome

\* Three models that agree, two that differ in width only, one that lacks the name.
C31_Agree ==
    /\ pc = "done" /\ call.op = "assert_same_address" /\ result.err = "none"
    /\ call.motor_models = <<"sts3215", "sts3250", "sts3215">>
C31_WidthDiffers ==
    /\ pc = "done" /\ call.op = "assert_same_address" /\ result.err = "NotImplementedError"
    /\ call.motor_models = <<"sts3215", "sts3250">> /\ call.data_name = "Torque_Enable"
C31_NotFound ==
    /\ pc = "done" /\ call.op = "assert_same_address" /\ result.err = "KeyError"
    /\ call.motor_models = <<"sts3215", "xl330", "sts3250">> /\ call.data_name = "Lock"

\* The address and width of the parameter of the call for the first of its targets.
GroupPair == model_ctrl_table[MotorWithId(Participants.ids[1]).model][call.data_name]

\* The payloads of a sync_write: the bytes of each value the call sends, encoded.
GroupPayload ==
    [i \in DOMAIN call.payload |->
       [id |-> call.payload[i].id,
        data |-> LittleEndian(_encode_value(call.payload[i].val.num, GroupPair[2]), GroupPair[2])]]

\* C32: in any sequence of sync_read and sync_write calls, every group transaction a
\* call issues carries the target ids of that call, the address and width of its
\* parameter and, for a write, its payloads, whatever earlier calls configured.
C32_NoCarryOver ==
    (pc # "idle" /\ call.op \in {"sync_read", "sync_write"} /\ wire # <<>>) =>
        /\ Participants.err = "none"
        /\ \A k \in DOMAIN wire :
              /\ wire[k].ids = Participants.ids
              /\ wire[k].addr = GroupPair[1]
              /\ wire[k].n_bytes = GroupPair[2]
              /\ wire[k].data = (IF call.op = "sync_write" THEN GroupPayload ELSE <<>>)
        /\ (call.op = "sync_write" /\ ~(call.normalize /\ call.data_name \in normalization_required))
              => call.payload = ids_values_of(call.varg).vals

\* A group read issued after a call that had configured the reader with other ids and
\* another address.
C32_Witness ==
    /\ pc = "done" /\ call.op = "sync_read" /\ wire # <<>>
    /\ entry.sync_reader.param # <<>>
    /\ entry.sync_reader.param # wire[1].ids
    /\ entry.sync_reader.start_address # wire[1].addr

\* A group write issued after a call that had configured the writer with other
\* payloads at another address.
C32_WriterReused ==
    /\ pc = "done" /\ call.op = "sync_write" /\ wire # <<>>
    /\ entry.sync_writer.param # <<>>
    /\ entry.sync_writer.param # wire[1].data
    /\ entry.sync_writer.start_address # wire[1].addr

\* The id-to-model-number map of the configured motors.
ConfiguredNumbers ==
    [i \in { motors[j].id : j \in DOMAIN motors } |-> model_number_table[MotorWithId(i).model]]

\* A connect() that opened the port and verified the motors.
Verified == pc = "done" /\ call.op = "connect" /\ ~entry.connected /\ wire # <<>>

\* What the claim of C33 asks of the verification.
VerificationOutcome ==
    IF wire[1].data = ConfiguredNumbers THEN result.err = "none"
    ELSE result.err = "RuntimeError"

\* C33: the verification of the motors at connection time passes exactly when the
\* id-to-model-number map the broadcast ping found equals the map of the configured
\* motors, and raises the mismatch error otherwise, for every configured motor set,
\* the empty one included.
C33_VerificationExact == Verified => VerificationOutcome

\* The same for buses configured with at least one motor.
C33_SomeMotor == (Verified /\ motors # <<>>) => VerificationOutcome

\* Three motors found as configured; three motors found with one of another model.
C33_Passes ==
    /\ Verified /\ Len(motors) = 3 /\ result.err = "none" /\ wire[1].data = ConfiguredNumbers
C33_WrongModel ==
    /\ Verified /\ Len(motors) = 3 /\ result.err = "RuntimeError"
    /\ DOMAIN wire[1].data = DOMAIN ConfiguredNumbers
    /\ result.msg = "is supposed to be of model_number"

\* The lower bound of the interval of the mode of the motor of the one-motor buses.
ModeLow == IF motors[1].norm_mode = "RANGE_M100_100" THEN -100 ELSE 0

\* C34: for every calibration with range_min <= range_max, both modes and every
\* normalized input, inside the mode's interval or not, _unnormalize returns an
\* integer within [range_min, range_max]: range_min at or below the lower bound of
\* the interval, range_max at or above the upper bound, and never less than it
\* returns for a smaller input.
C34_UnnormalizeInRange ==
    (pc = "done" /\ call.op = "_unnormalize") =>
        /\ result.err = "none" /\ Len(result.ret) = 1
        /\ result.ret[1].val.den = 1
        /\ result.ret[1].val.num >= calibration[motors[1].name].range_min
        /\ result.ret[1].val.num <= calibration[motors[1].name].range_max
        /\ call.step <= ModeLow * GridDen =>
              result.ret[1].val.num = calibration[motors[1].name].range_min
        /\ call.step >= 100 * GridDen =>
              result.ret[1].val.num = calibration[motors[1].name].range_max
        /\ \A r \in Roundings :
              (call.step - 1) \in GridSteps =>
                 UnnormalizeOne(motors[1].id, Frac(call.step - 1, GridDen), r).val.num
                    <= result.ret[1].val.num

\* An input inside the interval, not a float exactly, mapped strictly inside a range of
\* negative and positive ticks.
C34_Witness ==
    /\ pc = "done" /\ call.op = "_unnormalize" /\ result.err = "none"
    /\ motors[1].norm_mode = "RANGE_M100_100"
    /\ calibration[motors[1].name].range_min = -5 /\ calibration[motors[1].name].range_max = 6
    /\ call.payload[1].val = Val(-100, 3)
    /\ result.ret[1].val.num = -1

\* An input above the interval on a range of one tick.
C34_Degenerate ==
    /\ pc = "done" /\ call.op = "_unnormalize" /\ result.err = "none"
    /\ calibration[motors[1].name].range_min = calibration[motors[1].name].range_max
    /\ call.step > 100 * GridDen

\* C35: whenever connect() raises on a bus that was not connected (the port
\* cannot be opened, the motor verification fails, the broadcast ping raises),
\* the port is not left open: is_connected is false afterwards, so that the next
\* connect() is attempted afresh.
C35_RaisedConnectLeavesClosed ==
    (pc = "done" /\ call.op = "connect" /\ ~entry.connected /\ result.err # "none")
        => ~is_connected

\* The part of C35 that holds: when the port itself cannot be opened, connect()
\* raises the connection error and the bus stays disconnected.
C35_OpenFailureLeavesClosed ==
    (pc = "done" /\ call.op = "connect" /\ ~entry.connected /\ call.port # "true")
        => (result.err = "ConnectionError" /\ ~is_connected /\ wire = <<>>)

\* connect() raised out of the verification and the port is open.
C35_VerificationLeftOpen ==
    /\ pc = "done" /\ call.op = "connect" /\ ~entry.connected
    /\ result.err = "RuntimeError" /\ is_connected

\* connect() raised because the broadcast ping raised and the port is open.
C35_PingLeftOpen ==
    /\ pc = "done" /\ call.op = "connect" /\ ~entry.connected
    /\ result.err = "ConnectionError" /\ call.port = "true" /\ is_connected

\* The next connect() after one that raised is rejected as already connected.
C35_RetryRejected ==
    /\ pc = "done" /\ call.op = "connect" /\ entry.connected
    /\ result.err = "DeviceAlreadyConnectedError"
    /\ entry.packet_timeout = 0

\* Whether the procedure before is_calibrated covered every configured motor.
CoversAllMotors ==
    \A i \in DOMAIN motors :
       \/ \E j \in DOMAIN call.cal : call.cal[j].key = NameKey(motors[i].name)
       \/ \E j \in DOMAIN call.keys : call.keys[j] = NameKey(motors[i].name)

\* C36: on motors that store what is written and return it on read, after every
\* successful write_calibration(c) covering all configured motors and after every
\* successful reset_calibration() of all motors, the active calibration equals
\* what read_calibration() returns: is_calibrated is true, whatever the drive_mode
\* of the records of c.
C36_CalibrationConsistent ==
    (pc = "done" /\ call.op = "is_calibrated" /\ CoversAllMotors)
        => (result.err = "none" /\ result.is_calibrated)

\* The part of C36 that holds: the reads succeed, and after write_calibration(c)
\* the homing offset and the range of every record read back are those of c, which
\* is the active calibration.
C36_WrittenFieldsReadBack ==
    (pc = "done" /\ call.op = "is_calibrated" /\ CoversAllMotors) =>
        /\ result.err = "none"
        /\ Len(result.ret) = Len(motors)
        /\ call.cal # <<>> =>
             /\ calibration = AsCalibration(call.cal)
             /\ \A i \in DOMAIN motors :
                   /\ result.ret[i].key = NameKey(motors[i].name)
                   /\ result.ret[i].val.id = calibration[motors[i].name].id
                   /\ result.ret[i].val.homing_offset = calibration[motors[i].name].homing_offset
                   /\ result.ret[i].val.range_min = calibration[motors[i].name].range_min
                   /\ result.ret[i].val.range_max = calibration[motors[i].name].range_max

\* is_calibrated is false after a write_calibration whose records have drive_mode 1.
C36_DriveModeNotWritten ==
    /\ pc = "done" /\ call.op = "is_calibrated" /\ call.cal # <<>>
    /\ result.err = "none" /\ ~result.is_calibrated
    /\ \E i \in DOMAIN result.ret :
          result.ret[i].val.drive_mode # calibration[motors[i].name].drive_mode

\* is_calibrated is false after a reset_calibration of all motors: the motors hold
\* the reset values and the active calibration is the one from before.
C36_ResetNotAdopted ==
    /\ pc = "done" /\ call.op = "is_calibrated" /\ call.cal = <<>>
    /\ result.err = "none" /\ ~result.is_calibrated
    /\ \E i \in DOMAIN result.ret :
          result.ret[i].val.range_max # calibration[motors[i].name].range_max

\* is_calibrated is true after a write_calibration with a negative homing offset.
C36_Consistent ==
    /\ pc = "done" /\ call.op = "is_calibrated" /\ call.cal # <<>>
    /\ result.is_calibrated
    /\ \E i \in DOMAIN result.ret : result.ret[i].val.homing_offset < 0

\* C37: when every attempt of the group transaction of a sync_read fails, the call
\* raises the connectivity error without having fetched or decoded any per-motor
\* value from the group reader; values are fetched only after a transaction that
\* reported communication success.
C37_NoFetchAfterFailure ==
    (pc = "done" /\ call.op = "sync_read" /\ result.fetched > 0)
        => (wire # <<>> /\ _is_comm_success(wire[Len(wire)].comm))

\* The part of C37 that holds: when every attempt failed the call raises the
\* connectivity error and returns no value, and a call that returns values fetched
\* one per motor after a transaction that reported success.
C37_FailureStillRaises ==
    (pc = "done" /\ call.op = "sync_read" /\ wire # <<>>) =>
        /\ ~_is_comm_success(wire[Len(wire)].comm)
             => (result.err = "ConnectionError" /\ result.ret = <<>>)
        /\ result.err = "none"
             => (_is_comm_success(wire[Len(wire)].comm) /\ result.fetched = Len(call.ids)
                 /\ Len(result.ret) = Len(call.ids))

\* Every attempt failed, and a value per motor was fetched before the error.
C37_FetchedAfterFailure ==
    /\ pc = "done" /\ call.op = "sync_read" /\ result.err = "ConnectionError"
    /\ Len(wire) = 1 + call.num_retry
    /\ \A k \in DOMAIN wire : ~_is_comm_success(wire[k].comm)
    /\ result.fetched = Len(call.ids) /\ result.fetched > 0

\* The three procedures that take a motor selection.
SelectingProcedures == {"reset_calibration", "record_ranges_of_motion", "set_half_turn_homings"}

\* C38: set_half_turn_homings accepts the motor selections reset_calibration and
\* record_ranges_of_motion accept: none of the three rejects as a type error an
\* unspecified selection, a single name or id, or a list of names and ids, and for
\* a list set_half_turn_homings resets exactly the listed motors.
C38_SameSelections ==
    (pc = "done" /\ call.op \in SelectingProcedures /\ call.marg.tag \in {"none", "one", "list"})
        => /\ result.err # "TypeError"
           /\ (call.op = "set_half_turn_homings" /\ call.marg.tag = "list"
               /\ result.err = "none") => call.keys = call.marg.keys

\* The part of C38 that holds: reset_calibration and record_ranges_of_motion accept
\* the three kinds of selection, set_half_turn_homings accepts the unspecified and
\* the single one, and all three reject anything else as a type error.
C38_AcceptedSelections ==
    (pc = "done" /\ call.op \in SelectingProcedures) =>
        (result.err = "TypeError" <=>
            \/ call.marg.tag \notin {"none", "one", "list"}
            \/ call.op = "set_half_turn_homings" /\ call.marg.tag = "list")

\* set_half_turn_homings was given a list of two of its motors and raised a type
\* error before any transaction.
C38_ListRejected ==
    /\ pc = "done" /\ call.op = "set_half_turn_homings"
    /\ Len(motors) = 2 /\ call.marg = List(<<LastName, FirstName>>)
    /\ result.err = "TypeError" /\ wire = <<>>

\* reset_calibration was given the same list and reset its motors.
C38_ListAccepted ==
    /\ pc = "done" /\ call.op = "reset_calibration"
    /\ Len(motors) = 2 /\ call.marg = List(<<LastName, FirstName>>)
    /\ result.err = "none" /\ Len(wire) = 6

\* C39: for every calibration record with range_min <= range_max, the degenerate
\* range range_min = range_max included, _normalize fails with no arithmetic error
\* and yields a value inside the interval of the mode, [-100, 100] or [0, 100].
C39_NormalizeInInterval ==
    (pc = "done" /\ call.op = "_normalize" /\ Len(call.payload) = 1
     /\ calibration[motors[1].name].range_min <= calibration[motors[1].name].range_max) =>
        /\ result.err = "none" /\ Len(result.ret) = 1
        /\ result.ret[1].val.num >= ModeLow * result.ret[1].val.den
        /\ result.ret[1].val.num <= 100 * result.ret[1].val.den

\* The part of C39 that holds: for range_min < range_max the value is inside the
\* interval of the mode, and for range_min = range_max the call raises the division
\* error whatever the raw value.
C39_NormalizeUnlessDegenerate ==
    (pc = "done" /\ call.op = "_normalize" /\ Len(call.payload) = 1) =>
        IF calibration[motors[1].name].range_min < calibration[motors[1].name].range_max
        THEN /\ result.err = "none" /\ Len(result.ret) = 1
             /\ result.ret[1].val.den > 0
             /\ result.ret[1].val.num >= ModeLow * result.ret[1].val.den
             /\ result.ret[1].val.num <= 100 * result.ret[1].val.den
        ELSE result.err = "ZeroDivisionError" /\ result.ret = <<>>

\* _normalize of the one raw value of a degenerate range raised the division error.
C39_DegenerateRange ==
    /\ pc = "done" /\ call.op = "_normalize"
    /\ calibration[motors[1].name].range_min = calibration[motors[1].name].range_max
    /\ call.payload[1].val.num = calibration[motors[1].name].range_min
    /\ result.err = "ZeroDivisionError"

\* _normalize of a raw value above a range of several ticks gave 100.
C39_ClampedAbove ==
    /\ pc = "done" /\ call.op = "_normalize" /\ result.err = "none"
    /\ calibration[motors[1].name].range_min < calibration[motors[1].name].range_max
    /\ call.payload[1].val.num > calibration[motors[1].name].range_max
    /\ result.ret[1].val = Val(100, 1)

\* C40: scan_port is stateless with respect to the port: at every return, normal or
\* by error, the port it opened is closed again; and when the port cannot be
\* opened, whether open raises or returns false, it raises the connection error
\* and issues no broadcast ping.
C40_ScanLeavesPortClosed ==
    (pc = "done" /\ call.op = "scan_port") =>
        /\ ~call.port_open
        /\ call.port # "true" => (result.err = "ConnectionError" /\ wire = <<>>)

\* The part of C40 that holds: when open raises, scan_port raises the connection
\* error with no broadcast ping and no open port.
C40_RaisingOpen ==
    (pc = "done" /\ call.op = "scan_port" /\ call.port = "raises")
        => (result.err = "ConnectionError" /\ wire = <<>> /\ ~call.port_open)

\* scan_port returned its mapping and the port is open.
C40_LeftOpen ==
    /\ pc = "done" /\ call.op = "scan_port" /\ result.err = "none"
    /\ Len(wire) = Len(available_baudrates) /\ call.port_open

\* scan_port raised out of set_baudrate and the port is open.
C40_LeftOpenByError ==
    /\ pc = "done" /\ call.op = "scan_port" /\ result.err = "OSError" /\ call.port_open

\* open returned false and scan_port pinged at every baud rate and returned.
C40_PingedUnopened ==
    /\ pc = "done" /\ call.op = "scan_port" /\ call.port = "false"
    /\ result.err = "none" /\ Len(wire) = Len(available_baudrates)

====
